---------------------------- MODULE Spec2Model ----------------------------
(***************************************************************************)
(* Honeypot API: the turn handler (app/main.py), the session store         *)
(* (core/database.py), the callback client (core/callback.py), the scam    *)
(* detector (core/detector.py), the intelligence extractor                 *)
(* (core/extractor.py) and the conversational agent (core/agent.py).       *)
(*                                                                         *)
(* Texts are concrete strings.  What the regular expressions and substring *)
(* tests of the code find in each text is tabulated below (TextRules,      *)
(* RawMatches, KeywordHits, Vocab); the tables were produced by running    *)
(* the patterns of core/config.py on these strings.  Everything that the   *)
(* code computes from the matches (scores, types, normalisation,           *)
(* validation, de-duplication, caps, merging, strategy) is computed here   *)
(* the way the code computes it.  Confidence scores are kept in            *)
(* hundredths (0.15 is 15): on every combination of matched categories and *)
(* rule counts the float sum of the code and its rounding to two decimals  *)
(* equal the exact decimal sum.                                            *)
(***************************************************************************)
EXTENDS Integers, Sequences, FiniteSets, TLC

(* ------------------------------ bounds --------------------------------- *)

\* turns and forced callbacks accepted in one run
MaxRequests == 2
\* longest conversationHistory a request carries
MaxHistory == 2
\* members of each reply pool that random.choice is allowed to pick
PoolPick == 1
\* calls of generate_response on one agent
MaxTurns == 4
\* most rules of one category that a probed detection lets match
MaxRules == 3

(* ------------------------- program constants --------------------------- *)

SCAM_DETECTION_THRESHOLD == 60
MIN_TURNS_BEFORE_CALLBACK == 3
MAX_CONVERSATION_TURNS == 15
MaxAttempts == 2
FieldCap == 5
LinkCap == 10
KeywordCap == 15
ConfidenceCap == 99
NoIndicatorConfidence == 10
IndicatorCap == 10

(* ------------------------------ helpers -------------------------------- *)

Range(s) == {s[i] : i \in 1..Len(s)}

Min(a, b) == IF a <= b THEN a ELSE b

Take(s, n) == SubSeq(s, 1, Min(Len(s), n))

RECURSIVE Flatten(_)
Flatten(ss) == IF ss = <<>> THEN <<>> ELSE Head(ss) \o Flatten(Tail(ss))

\* sep.join(parts)
RECURSIVE Join(_, _)
Join(parts, sep) ==
  IF parts = <<>> THEN ""
  ELSE IF Len(parts) = 1 THEN Head(parts)
  ELSE Head(parts) \o sep \o Join(Tail(parts), sep)

SeqsUpTo(S, n) == UNION {[1..k -> S] : k \in 0..n}

(* ------------------------------- texts --------------------------------- *)

tUpi == "Urgent: send Rs 5000 to my UPI id Refund@PhonePe immediately"
tBlock == "Your account will be blocked today. Share the OTP now"
tCall == "Call +91 9876543210 to claim your lottery prize"
tHello == "Hello, how are you?"
tUpiCaps == "Pay REFUND@PHONEPE or refund@phonepe."
tPhones == "Phone: 98765 43210, contact: 09876543210 or mobile: 98765 4321."
tPhone12 == "My number is 9876543210, contact: 449876543210."
tPayUpi == "Pay by UPI."
tUpiBank == "Use UPI or bank transfer."
tLinks == "Verify at http://sbi-kyc.xyz/login or www.sbi.co.in/help today."
tPort == "Login at https://sbi.co.in:443/login now."
tCapsLink == "Open HTTP://pay-kyc.xyz/a now."
tUnknown == "See https://news.example.org/today please."
tMail == "Mail the form to helper@gmail.com today."
tClick == "Click the link I sent you."
tSixUpi == "Pay ann@okbank, bob@okbank, cat@okbank, dev@okbank, eve@okbank or fay@okbank."
tAsk == "Which account should I transfer to? Can you give me the details? I need to verify this first."

Msg(sender, text) == [sender |-> sender, text |-> text]

\* the incoming messages a caller sends
InMsgs ==
  { Msg("scammer", tUpi), Msg("scammer", tBlock), Msg("scammer", tCall),
    Msg("scammer", tHello) }

\* the messages a caller puts in conversationHistory
HistMsgs ==
  { Msg("scammer", tUpi), Msg("scammer", tHello), Msg("agent", tAsk) }

SessionIds == {"s1", "s2"}

Handlers == {"h1", "h2"}

(* ------------------------ core/config.py tables ------------------------ *)

Categories ==
  << "urgency", "bank_fraud", "upi_fraud", "phishing", "fake_offers",
     "otp_pin_harvesting", "suspicious_keywords" >>

\* the rules of SCAM_PATTERNS (category, position in its list) that find a
\* match in the lower-cased text
TextRules(t) ==
  CASE t = tUpi ->
         { <<"urgency", 3>>, <<"urgency", 4>>, <<"upi_fraud", 1>>,
           <<"upi_fraud", 2>>, <<"upi_fraud", 9>>, <<"fake_offers", 6>>,
           <<"otp_pin_harvesting", 10>> }
    [] t = tBlock ->
         { <<"urgency", 1>>, <<"urgency", 2>>, <<"otp_pin_harvesting", 1>>,
           <<"otp_pin_harvesting", 6>> }
    [] t = tCall -> { <<"fake_offers", 4>>, <<"fake_offers", 8>> }
    [] t = tAsk -> { <<"upi_fraud", 8>> }
    [] t = tUpiCaps -> { <<"upi_fraud", 2>>, <<"upi_fraud", 9>> }
    [] t = tPhones -> { <<"otp_pin_harvesting", 10>> }
    [] t \in {tPayUpi, tUpiBank} -> { <<"upi_fraud", 1>> }
    [] t \in {tLinks, tPort} -> { <<"bank_fraud", 1>>, <<"phishing", 3>> }
    [] t = tCapsLink -> { <<"phishing", 3>> }
    [] t = tSixUpi -> { <<"bank_fraud", 1>> }
    [] t \in { "What's the UPI ID I should send to? I want to make sure I get it right.",
               "What's the UPI ID I should send to? I want to make sure I get it right. I want to make sure I do it correctly.",
               "What's the UPI ID I should send to? I want to make sure I get it right. I want to help.",
               "What's the UPI ID I should send to? I want to make sure I get it right. I need to verify this first.",
               "Can you confirm the UPI ID? I don't want to send to the wrong person.",
               "Can you confirm the UPI ID? I don't want to send to the wrong person. I want to make sure I do it correctly.",
               "Can you confirm the UPI ID? I don't want to send to the wrong person. I want to help.",
               "Can you confirm the UPI ID? I don't want to send to the wrong person. I need to verify this first." } ->
         { <<"upi_fraud", 1>> }
    [] t \in { "Which account should I transfer to? Can you give me the details?",
               "Which account should I transfer to? Can you give me the details? I want to make sure I do it correctly.",
               "Which account should I transfer to? Can you give me the details? I want to help." } ->
         { <<"upi_fraud", 8>> }
    [] t \in { "Why is this so urgent? Can you explain?",
               "Can you tell me more about why this is urgent?" } ->
         { <<"urgency", 3>> }
    [] t = "Is this really from my bank?" -> {}
    [] OTHER -> {}

\* the matches of each regex of EXTRACTION_PATTERNS[field] in the text, in
\* the order finditer yields them: group(1) where the regex has a group,
\* group(0) otherwise; one sequence per regex of the field
RawMatches(t, field) ==
  CASE t = tUpi /\ field = "upi_id" ->
         << <<"Refund@PhonePe">>, <<"Refund@PhonePe">>, <<"Refund@PhonePe">> >>
    [] t = tCall /\ field = "bank_account" ->
         << <<"9876543210">>, <<>>, <<>> >>
    [] t = tCall /\ field = "phone_number" ->
         << <<"+91 9876543210">>, <<"9876543210">>, <<"+91 9876543210 ">> >>
    [] t = tUpiCaps /\ field = "upi_id" ->
         << <<"REFUND@PHONEPE", "refund@phonepe">>,
            <<"REFUND@PHONEPE", "refund@phonepe">>, <<>> >>
    [] t = tPhones /\ field = "bank_account" ->
         << <<"09876543210">>, <<>>, <<>> >>
    [] t = tPhones /\ field = "phone_number" ->
         << <<>>, <<>>, <<"98765 43210", "09876543210 ", "98765 4321">> >>
    [] t = tPhone12 /\ field = "bank_account" ->
         << <<"9876543210", "449876543210">>, <<>>, <<>> >>
    [] t = tPhone12 /\ field = "phone_number" ->
         << <<>>, <<"9876543210">>, <<"449876543210">> >>
    [] t = tLinks /\ field = "phishing_link" ->
         << <<"http://sbi-kyc.xyz/login">>, <<"www.sbi.co.in/help">> >>
    [] t = tPort /\ field = "phishing_link" ->
         << <<"https://sbi.co.in:443/login">>, <<>> >>
    [] t = tCapsLink /\ field = "phishing_link" ->
         << <<"HTTP://pay-kyc.xyz/a">>, <<>> >>
    [] t = tUnknown /\ field = "phishing_link" ->
         << <<"https://news.example.org/today">>, <<>> >>
    [] t = tSixUpi /\ field = "upi_id" ->
         << <<>>,
            << "ann@okbank", "bob@okbank", "cat@okbank", "dev@okbank", "eve@okbank", "fay@okbank" >>,
            <<>> >>
    [] t = tMail /\ field = "upi_id" ->
         << <<>>, <<"helper@gmail">>, <<>> >>
    [] field = "bank_account" -> << <<>>, <<>>, <<>> >>
    [] field = "ifsc_code" -> << <<>>, <<>> >>
    [] field = "upi_id" -> << <<>>, <<>>, <<>> >>
    [] field = "phone_number" -> << <<>>, <<>>, <<>> >>
    [] OTHER -> << <<>>, <<>> >>

\* str.lower().strip() of a matched string
LowerStrip(s) ==
  CASE s \in {"Refund@PhonePe", "REFUND@PHONEPE"} -> "refund@phonepe"
    [] OTHER -> s

\* ''.join(c for c in s if c.isdigit())
Digits(s) ==
  CASE s = "+91 9876543210" -> "919876543210"
    [] s = "+91 9876543210 " -> "919876543210"
    [] s = "98765 43210" -> "9876543210"
    [] s = "09876543210 " -> "09876543210"
    [] s = "98765 4321" -> "987654321"
    [] OTHER -> s

\* the part of a lower-cased UPI candidate before its first '@'
LocalPart(s) ==
  CASE s = "refund@phonepe" -> "refund"
    [] s = "helper@gmail" -> "helper"
    [] s = "ann@okbank" -> "ann"
    [] s = "bob@okbank" -> "bob"
    [] s = "cat@okbank" -> "cat"
    [] s = "dev@okbank" -> "dev"
    [] s = "eve@okbank" -> "eve"
    [] s = "fay@okbank" -> "fay"
    [] OTHER -> s

HasAt(s) ==
  s \in { "refund@phonepe", "helper@gmail",
          "ann@okbank", "bob@okbank", "cat@okbank", "dev@okbank", "eve@okbank", "fay@okbank" }

\* upi.endswith(("@gmail.com", "@yahoo.com", "@hotmail.com")): no match of
\* the three regexes reaches past the first "." after the "@"
EndsWithFreeMail(s) == FALSE

StartsWith91(d) == d \in {"919876543210"}

\* the entries of scam_keywords and of urgent_phrases that occur in the
\* lower-cased text
KeywordHits(t) ==
  CASE t = tUpi -> {"urgent", "immediately"}
    [] t = tBlock -> {"will be blocked"}
    [] OTHER -> {}

\* the substring tests of _determine_strategy on the lower-cased message
Vocab(t) ==
  CASE t = tUpi -> {"upi", "phone", "urgent", "ask"}
    [] t = tBlock -> {"bank", "urgent", "ask"}
    [] t = tCall -> {"phone"}
    [] t = tUpiCaps -> {"upi", "phone"}
    [] t \in {tPhones, tPhone12} -> {"phone"}
    [] t = tPayUpi -> {"upi"}
    [] t = tSixUpi -> {"bank"}
    [] t = tUpiBank -> {"upi", "bank"}
    [] t = tAsk -> {"bank", "ask"}
    [] t \in {tPort, tCapsLink} -> {"urgent"}
    [] t = tClick -> {"link"}
    [] OTHER -> {}

(* -------------------------- core/detector.py --------------------------- *)

CategorySet == Range(Categories)

\* category_matches of detect: for each category the rules that match the
\* text of all messages, whoever sent them
CategoryMatches(messages) ==
  LET found == UNION {TextRules(messages[i].text) : i \in 1..Len(messages)}
  IN  [c \in CategorySet |-> {r[2] : r \in {x \in found : x[1] = c}}]

Matched(cm) == {c \in CategorySet : cm[c] # {}}

\* the bonus loop with its first test only: one bonus per category
PatternBonusOnce(cm, cats) ==
  10 * Cardinality({c \in cats : Cardinality(cm[c]) >= 2})

\* the bonus loop of _calculate_confidence over the matched categories
RECURSIVE PatternBonus(_, _)
PatternBonus(cm, cats) ==
  IF cats = {} THEN 0
  ELSE LET c == CHOOSE x \in cats : TRUE
           n == Cardinality(cm[c])
       IN  (IF n >= 2 THEN 10 ELSE 0) + (IF n >= 3 THEN 10 ELSE 0)
           + PatternBonus(cm, cats \ {c})

\* _calculate_confidence without its last line, the cap
UncappedConfidence(cm) ==
  LET m == Matched(cm)
      critical == 15 * Cardinality(m \cap {"urgency", "otp_pin_harvesting", "phishing"})
  IN  Min(Cardinality(m) * 15, 45) + PatternBonus(cm, m) + critical
      + (IF "upi_fraud" \in m THEN 10 ELSE 0) + (IF "bank_fraud" \in m THEN 10 ELSE 0)
      + (IF "urgency" \in m /\ ("bank_fraud" \in m \/ "upi_fraud" \in m)
         THEN 15 ELSE 0)

CalculateConfidence(cm) ==
  LET m == Matched(cm)
      base == Min(Cardinality(m) * 15, 45)
      critical == 15 * Cardinality(m \cap {"urgency", "otp_pin_harvesting", "phishing"})
      upi == IF "upi_fraud" \in m THEN 10 ELSE 0
      bank == IF "bank_fraud" \in m THEN 10 ELSE 0
      combo == IF "urgency" \in m /\ ("bank_fraud" \in m \/ "upi_fraud" \in m)
               THEN 15 ELSE 0
  IN  Min(base + PatternBonus(cm, m) + critical + upi + bank + combo, ConfidenceCap)

\* _determine_scam_type with phishing ahead of bank_fraud in the priority list
PhishingBeforeBank(cm) ==
  LET m == Matched(cm)
  IN  IF "upi_fraud" \in m THEN "upi_fraud"
      ELSE IF "phishing" \in m THEN "phishing"
      ELSE IF "bank_fraud" \in m THEN "bank_fraud"
      ELSE IF "fake_offers" \in m THEN "fake_offer"
      ELSE IF "otp_pin_harvesting" \in m THEN "otp_harvesting"
      ELSE IF "urgency" \in m \/ "suspicious_keywords" \in m THEN "phishing"
      ELSE "unknown"

DetermineScamType(cm) ==
  LET m == Matched(cm)
  IN  IF "upi_fraud" \in m THEN "upi_fraud"
      ELSE IF "bank_fraud" \in m THEN "bank_fraud"
      ELSE IF "phishing" \in m THEN "phishing"
      ELSE IF "fake_offers" \in m THEN "fake_offer"
      ELSE IF "otp_pin_harvesting" \in m THEN "otp_harvesting"
      ELSE IF "urgency" \in m \/ "suspicious_keywords" \in m THEN "phishing"
      ELSE "unknown"

\* detect from the category_matches dict on
\* detect from its category_matches dict on, under a configured
\* settings.SCAM_DETECTION_THRESHOLD (hundredths)
DetectWithThreshold(cm, threshold) ==
  IF Matched(cm) = {}
  THEN [scamDetected |-> FALSE, confidenceScore |-> NoIndicatorConfidence,
        scamType |-> "unknown"]
  ELSE LET confidence == CalculateConfidence(cm)
       IN  [scamDetected |-> confidence >= threshold,
            confidenceScore |-> confidence,
            scamType |-> DetermineScamType(cm)]

\* thresholds the environment variable SCAM_DETECTION_THRESHOLD can configure
Thresholds == {NoIndicatorConfidence, SCAM_DETECTION_THRESHOLD, 90}

DetectMatches(cm) == DetectWithThreshold(cm, SCAM_DETECTION_THRESHOLD)

Detect(messages) == DetectMatches(CategoryMatches(messages))

\* indicators_found as a set: of each matched category the first two
\* patterns that matched, a pattern named by its category and its place
IndicatorsFound(cm) ==
  UNION { { <<c, i>> : i \in {k \in cm[c] : Cardinality({j \in cm[c] : j < k}) < 2} } :
          c \in CategorySet }

\* the longest pattern list of SCAM_PATTERNS
MaxPatterns == 11

\* the order in which list(set(...)) yields the patterns: that of their
\* string hashes under the seed of the interpreter
PatternHashOrder(seed) ==
  LET n == Len(Categories) * MaxPatterns
      ascending == [k \in 1..n |->
                     << Categories[((k - 1) \div MaxPatterns) + 1],
                        ((k - 1) % MaxPatterns) + 1 >>]
  IN  IF seed = 1 THEN ascending ELSE [k \in 1..n |-> ascending[n + 1 - k]]

\* indicators = list(set(indicators_found))[:10]
Indicators(cm, seed) ==
  LET found == IndicatorsFound(cm)
  IN  Take(SelectSeq(PatternHashOrder(seed), LAMBDA x : x \in found), IndicatorCap)

\* _generate_reasoning
Reasoning(cm, scam_type) ==
  LET m == Matched(cm)
      parts ==
        (IF "urgency" \in m THEN << "Creates false urgency" >> ELSE <<>>)
        \o (IF "bank_fraud" \in m THEN << "Impersonates bank" >> ELSE <<>>)
        \o (IF "upi_fraud" \in m THEN << "Requests UPI transfer" >> ELSE <<>>)
        \o (IF "phishing" \in m THEN << "Contains suspicious links" >> ELSE <<>>)
        \o (IF "fake_offers" \in m THEN << "Promises fake rewards" >> ELSE <<>>)
        \o (IF "otp_pin_harvesting" \in m THEN << "Requests sensitive codes" >> ELSE <<>>)
        \o (IF "suspicious_keywords" \in m
            THEN << "Uses suspicious terminology" >> ELSE <<>>)
  IN  IF parts # <<>> THEN "Detected " \o scam_type \o ": " \o Join(parts, "; ")
      ELSE "Low confidence detection"

\* the ScamDetectionResult of detect with all its fields, in an interpreter
\* whose hash seed is seed
ScamDetectionResult(cm, seed) ==
  LET result == DetectMatches(cm)
  IN  [ scamDetected |-> result.scamDetected,
        confidenceScore |-> result.confidenceScore,
        scamType |-> result.scamType,
        indicators |-> IF Matched(cm) = {} THEN <<>> ELSE Indicators(cm, seed),
        reasoning |-> IF Matched(cm) = {} THEN "No scam indicators detected"
                      ELSE Reasoning(cm, result.scamType) ]

(* -------------------------- core/extractor.py -------------------------- *)

Keep(v) == [keep |-> TRUE, value |-> v]

Drop == [keep |-> FALSE, value |-> ""]

NormaliseBank(raw) ==
  LET account == Digits(raw)
  IN  IF 9 <= Len(account) /\ Len(account) <= 18 THEN Keep(account) ELSE Drop

FifthIsZero(code) == FALSE

\* str.upper().strip() of a matched string
UpperStrip(s) == s

NormaliseIfsc(raw) ==
  LET code == UpperStrip(raw)
  IN  IF Len(code) = 11 /\ FifthIsZero(code) THEN Keep(code) ELSE Drop

\* _extract_upi_ids without "upi = upi.lower().strip()"
UpiAsWritten(raw) ==
  IF HasAt(LowerStrip(raw)) /\ Len(LocalPart(LowerStrip(raw))) >= 3
  THEN Keep(raw) ELSE Drop

NormaliseUpi(raw) ==
  LET upi == LowerStrip(raw)
  IN  IF HasAt(upi) /\ ~EndsWithFreeMail(upi) /\ Len(LocalPart(upi)) >= 3
      THEN Keep(upi) ELSE Drop

\* _extract_phone_numbers without its second branch, putting the country
\* code before every number of ten digits or more
CountryCodeAlways(raw) ==
  IF Len(Digits(raw)) >= 10 THEN Keep("+91" \o Digits(raw)) ELSE Drop

NormalisePhone(raw) ==
  LET digits == Digits(raw)
  IN  IF Len(digits) = 10 THEN Keep("+91" \o digits)
      ELSE IF Len(digits) = 12 /\ StartsWith91(digits) THEN Keep("+" \o digits)
      ELSE IF Len(digits) > 10 THEN Keep("+" \o digits)
      ELSE Drop

\* url.startswith(("http://", "https://", "www.")), case-sensitive
StartsWithUrlPrefix(url) == url # "HTTP://pay-kyc.xyz/a"

\* urlparse(url).netloc.lower(), of a "www." URL after "http://" is put
\* before it: what stands between "//" and the next "/", port included
Netloc(url) ==
  CASE url = "http://sbi-kyc.xyz/login" -> "sbi-kyc.xyz"
    [] url = "www.sbi.co.in/help" -> "www.sbi.co.in"
    [] url = "https://sbi.co.in:443/login" -> "sbi.co.in:443"
    [] url = "HTTP://pay-kyc.xyz/a" -> "pay-kyc.xyz"
    [] url = "https://news.example.org/today" -> "news.example.org"
    [] OTHER -> url

\* domain[4:] if domain.startswith("www.")
WithoutWww(domain) == IF domain = "www.sbi.co.in" THEN "sbi.co.in" ELSE domain

\* domain == legit or domain.endswith("." + legit) for a legit of
\* LEGITIMATE_DOMAINS
AllowListed(domain) == domain = "sbi.co.in"

\* urlparse raises only on a netloc with brackets or with characters outside
\* ASCII, and no URL of the catalogue has one
ParseFails(url) == FALSE

\* _is_suspicious_url: after the allow-list every test (TLD, look-alike
\* name, keyword, shortener) returns True, and so does the default
IsSuspiciousUrl(url) ==
  IF ParseFails(url) THEN TRUE
  ELSE LET domain == WithoutWww(Netloc(url))
       IN  IF AllowListed(domain) THEN FALSE ELSE TRUE

\* the body of the loop of _extract_phishing_links; strip() changes no
\* match, the regexes stop at white space
NormaliseLink(raw) ==
  IF ~StartsWithUrlPrefix(raw) THEN Drop
  ELSE IF IsSuspiciousUrl(raw) THEN Keep(raw) ELSE Drop

Normalise(field, raw) ==
  CASE field = "bank_account" -> NormaliseBank(raw)
    [] field = "ifsc_code" -> NormaliseIfsc(raw)
    [] field = "upi_id" -> NormaliseUpi(raw)
    [] field = "phone_number" -> NormalisePhone(raw)
    [] OTHER -> NormaliseLink(raw)

\* the slices [:5], [:10] and [:15] of the extractor left out
WithoutCap(field) == 100

Cap(field) == IF field = "phishing_link" THEN LinkCap ELSE FieldCap

\* the join of extract without its filter on the sender
TextsOfAllSenders(messages) == [i \in 1..Len(messages) |-> messages[i].text]

ScammerTexts(messages) ==
  LET mine == SelectSeq(messages, LAMBDA m : m.sender = "scammer")
  IN  [i \in 1..Len(mine) |-> mine[i].text]

\* the matches in the order the two loops of an _extract_ method visit them:
\* regex by regex, and for each regex through the scammer text left to right
Candidates(messages, field) ==
  LET texts == ScammerTexts(messages)
      n == Len(RawMatches(tHello, field))
  IN  Flatten([i \in 1..n |->
        Flatten([j \in 1..Len(texts) |-> RawMatches(texts[j], field)[i]])])

\* "if value not in values: values.append(value)" over the candidates
RECURSIVE Collect(_, _, _)
Collect(field, cands, acc) ==
  IF cands = <<>> THEN acc
  ELSE LET n == Normalise(field, Head(cands))
       IN  Collect(field, Tail(cands),
                   IF n.keep /\ n.value \notin Range(acc)
                   THEN Append(acc, n.value) ELSE acc)

ExtractField(messages, field) ==
  Take(Collect(field, Candidates(messages, field), <<>>), Cap(field))

\* list(set(found)): the iteration order of a set of strings follows their
\* hashes, which the interpreter draws when it starts
HashOrder(seed) ==
  IF seed = 1 THEN << "urgent", "immediately", "will be blocked" >>
  ELSE << "will be blocked", "immediately", "urgent" >>

HashSeeds == {1, 2}

ExtractKeywords(messages, seed) ==
  LET texts == ScammerTexts(messages)
      found == UNION {KeywordHits(texts[i]) : i \in 1..Len(texts)}
  IN  Take(SelectSeq(HashOrder(seed), LAMBDA k : k \in found), KeywordCap)

Extract(messages, seed) ==
  [ bankAccounts |-> ExtractField(messages, "bank_account"),
    ifscCodes |-> ExtractField(messages, "ifsc_code"),
    upiIds |-> ExtractField(messages, "upi_id"),
    phishingLinks |-> ExtractField(messages, "phishing_link"),
    phoneNumbers |-> ExtractField(messages, "phone_number"),
    suspiciousKeywords |-> ExtractKeywords(messages, seed) ]

(* --------------------------- core/models.py ---------------------------- *)

IntelFields ==
  { "bankAccounts", "ifscCodes", "upiIds", "phishingLinks", "phoneNumbers",
    "suspiciousKeywords" }

EmptyIntelligence == [f \in IntelFields |-> <<>>]

\* a has_intelligence that lets keywords count as intelligence
has_intelligence_or_keywords(intel) ==
  \E f \in IntelFields : intel[f] # <<>>

has_intelligence(intel) ==
  \/ intel.bankAccounts # <<>>
  \/ intel.ifscCodes # <<>>
  \/ intel.upiIds # <<>>
  \/ intel.phishingLinks # <<>>
  \/ intel.phoneNumbers # <<>>

\* SessionState(sessionId=..., messages=[]) with the defaults of the model
NewSession(sid) ==
  [ sessionId |-> sid, messages |-> <<>>, hasDetection |-> FALSE,
    detectionResult |-> [scamDetected |-> FALSE, confidenceScore |-> 0,
                         scamType |-> "unknown"],
    extractedIntelligence |-> EmptyIntelligence,
    totalMessagesExchanged |-> 0, callbackSent |-> FALSE, agentNotes |-> "" ]

(* ---------------------------- core/agent.py ---------------------------- *)

Personas == {"confused", "cooperative", "skeptical", "curious"}

PersonaName(persona) ==
  CASE persona = "confused" -> "Ramesh"
    [] persona = "cooperative" -> "Priya"
    [] persona = "skeptical" -> "Vikram"
    [] OTHER -> "Ananya"

PersonaResponses(persona) ==
  CASE persona = "confused" ->
         << "Wait... I'm a bit confused. Could you explain that again?",
            "Sorry, I'm not very good with technology. What did you say?",
            "My eyes aren't what they used to be. Can you repeat that slowly?" >>
    [] persona = "cooperative" ->
         << "Okay, I want to help. What do I need to do?",
            "I can do that. Just to confirm - what was the ID again?",
            "I want to make sure I do this right. Can you repeat?" >>
    [] persona = "skeptical" ->
         << "How do I know this is real? I've been scammed before.",
            "Can you prove you're from the bank?",
            "This seems suspicious. Why do you need this?" >>
    [] OTHER ->
         << "Interesting... tell me more about this.",
            "Why would my account be blocked? I didn't do anything wrong.",
            "How does this work exactly?" >>

ExtractionQuestions(data_type) ==
  CASE data_type = "upi_id" ->
         << "What's the UPI ID I should send to? I want to make sure I get it right.",
            "Can you confirm the UPI ID? I don't want to send to the wrong person.",
            "Sorry, I got disconnected. What was the UPI ID again?" >>
    [] data_type = "bank_account" ->
         << "Which account should I transfer to? Can you give me the details?",
            "I can do a bank transfer. What are the account details?",
            "My bank needs the account number and IFSC. Can you provide those?" >>
    [] data_type = "phone_number" ->
         << "Can I call you to confirm? What's your number?",
            "My phone is having issues. Can you give me your number again?",
            "I'd like to save your number. What is it?" >>
    [] OTHER ->
         << "The link isn't working. Can you send it again?",
            "I'm having trouble opening the link. Could you resend?",
            "My browser says the link is broken. Can you check and resend?" >>

StrategyResponses(strategy) ==
  CASE strategy = "express_confusion" ->
         << "I'm a bit confused. Could you explain that again more simply?",
            "Sorry, I didn't understand. Can you repeat that?",
            "This is confusing for me. What exactly do you need?" >>
    [] strategy = "ask_clarification" ->
         << "Why do you need this information?",
            "Is this really from my bank?",
            "How do I know this is legitimate?" >>
    [] strategy = "show_cooperation" ->
         << "Okay, I'm listening. What should I do next?",
            "I understand. Please guide me through this.",
            "Alright, I want to do this right. What's the next step?" >>
    [] OTHER ->
         << "This feels rushed. Can we take this slowly?",
            "I'm getting worried. Is everything okay?",
            "Why is this so urgent? Can you explain?" >>

AgentFields == {"upi", "bank", "phone", "link"}

NoAgent ==
  [ present |-> FALSE, scam_type |-> "unknown", persona |-> "confused",
    turn_count |-> 0,
    extracted_so_far |-> [f \in AgentFields |-> FALSE],
    extraction_attempts |-> [f \in AgentFields |-> 0] ]

\* _select_persona: the personas random.choice may return for the type
SelectPersona(scam_type) ==
  CASE scam_type = "bank_fraud" -> {"skeptical"}
    [] scam_type = "upi_fraud" -> {"confused"}
    [] scam_type = "fake_offer" -> {"curious"}
    [] OTHER -> Personas

create_agent(scam_type, persona) ==
  [NoAgent EXCEPT !.present = TRUE, !.scam_type = scam_type, !.persona = persona]

\* _determine_strategy without its tests of extraction_attempts
AskWithoutLimit(agent, scammer_msg, extracted) ==
  LET v == Vocab(scammer_msg)
  IN  IF "upi" \in v /\ extracted.upiIds = <<>> THEN "extract_upi"
      ELSE IF "bank" \in v /\ extracted.bankAccounts = <<>> THEN "extract_bank"
      ELSE IF "phone" \in v /\ extracted.phoneNumbers = <<>> THEN "extract_phone"
      ELSE IF "link" \in v /\ extracted.phishingLinks = <<>> THEN "extract_link"
      ELSE IF "urgent" \in v THEN "express_concern"
      ELSE IF "ask" \in v THEN "express_confusion"
      ELSE IF agent.turn_count <= 2 THEN "ask_clarification"
      ELSE "show_cooperation"

\* _determine_strategy with its second test ahead of its first
BankBeforeUpi(agent, scammer_msg, extracted) ==
  LET v == Vocab(scammer_msg)
  IN  IF "bank" \in v /\ extracted.bankAccounts = <<>>
         /\ agent.extraction_attempts["bank"] < MaxAttempts
      THEN "extract_bank"
      ELSE IF "upi" \in v /\ extracted.upiIds = <<>>
              /\ agent.extraction_attempts["upi"] < MaxAttempts
      THEN "extract_upi"
      ELSE IF "phone" \in v /\ extracted.phoneNumbers = <<>>
              /\ agent.extraction_attempts["phone"] < MaxAttempts
      THEN "extract_phone"
      ELSE IF "link" \in v /\ extracted.phishingLinks = <<>>
              /\ agent.extraction_attempts["link"] < MaxAttempts
      THEN "extract_link"
      ELSE IF "urgent" \in v THEN "express_concern"
      ELSE IF "ask" \in v THEN "express_confusion"
      ELSE IF agent.turn_count <= 2 THEN "ask_clarification"
      ELSE "show_cooperation"

_determine_strategy(agent, scammer_msg, extracted) ==
  LET v == Vocab(scammer_msg)
  IN  IF "upi" \in v /\ extracted.upiIds = <<>>
         /\ agent.extraction_attempts["upi"] < MaxAttempts
      THEN "extract_upi"
      ELSE IF "bank" \in v /\ extracted.bankAccounts = <<>>
              /\ agent.extraction_attempts["bank"] < MaxAttempts
      THEN "extract_bank"
      ELSE IF "phone" \in v /\ extracted.phoneNumbers = <<>>
              /\ agent.extraction_attempts["phone"] < MaxAttempts
      THEN "extract_phone"
      ELSE IF "link" \in v /\ extracted.phishingLinks = <<>>
              /\ agent.extraction_attempts["link"] < MaxAttempts
      THEN "extract_link"
      ELSE IF "urgent" \in v THEN "express_concern"
      ELSE IF "ask" \in v THEN "express_confusion"
      ELSE IF agent.turn_count <= 2 THEN "ask_clarification"
      ELSE "show_cooperation"

_generate_extraction_question(agent, data_type, pick) ==
  LET question == ExtractionQuestions(data_type)[pick]
      name == PersonaName(agent.persona)
  IN  IF name = "Ramesh" THEN question \o " I want to make sure I do it correctly."
      ELSE IF name = "Priya" THEN question \o " I want to help."
      ELSE IF name = "Vikram" THEN question \o " I need to verify this first."
      ELSE question

StrategyField(strategy) ==
  CASE strategy = "extract_upi" -> "upi"
    [] strategy = "extract_bank" -> "bank"
    [] strategy = "extract_phone" -> "phone"
    [] OTHER -> "link"

StrategyDataType(strategy) ==
  CASE strategy = "extract_upi" -> "upi_id"
    [] strategy = "extract_bank" -> "bank_account"
    [] strategy = "extract_phone" -> "phone_number"
    [] OTHER -> "phishing_link"

ExtractStrategies == {"extract_upi", "extract_bank", "extract_phone", "extract_link"}

\* the loop "for msg in reversed(messages)" of generate_response: the text
\* of the last scammer message of the list, "" when there is none
last_scammer_msg(messages) ==
  LET scammer == SelectSeq(messages, LAMBDA m : m.sender = "scammer")
  IN  IF scammer = <<>> THEN "" ELSE scammer[Len(scammer)].text

\* generate_response: the agent after the call, the reply and the strategy;
\* pick is the index random.choice draws in the pool it is used on
generate_response(agent, messages, extracted, pick) ==
  LET counted == [agent EXCEPT !.turn_count = @ + 1]
  IN  IF last_scammer_msg(messages) = ""
      THEN [agent |-> counted, strategy |-> "none",
            reply |-> PersonaResponses(counted.persona)[pick]]
      ELSE
        LET last == last_scammer_msg(messages)
            marked ==
              [counted EXCEPT !.extracted_so_far =
                 [f \in AgentFields |->
                    \/ @[f]
                    \/ f = "upi" /\ extracted.upiIds # <<>>
                    \/ f = "bank" /\ extracted.bankAccounts # <<>>
                    \/ f = "phone" /\ extracted.phoneNumbers # <<>>
                    \/ f = "link" /\ extracted.phishingLinks # <<>>]]
            strategy == _determine_strategy(marked, last, extracted)
        IN  IF strategy \in ExtractStrategies
            THEN IF ~marked.extracted_so_far[StrategyField(strategy)]
                 THEN [agent |-> [marked EXCEPT
                                    !.extraction_attempts[StrategyField(strategy)] = @ + 1],
                       strategy |-> strategy,
                       reply |-> _generate_extraction_question(
                                   marked, StrategyDataType(strategy), pick)]
                 ELSE [agent |-> marked, strategy |-> strategy,
                       reply |-> PersonaResponses(marked.persona)[pick]]
            ELSE [agent |-> marked, strategy |-> strategy,
                  reply |-> StrategyResponses(strategy)[pick]]

\* values the environment variable MAX_CONVERSATION_TURNS can configure
TurnCaps == {2, MAX_CONVERSATION_TURNS}

\* should_continue in a process configured with max_turns; no handler of
\* app/main.py calls it
should_continue(agent, max_turns) == ~(agent.turn_count >= max_turns)

\* whether "urgent" or "immediately" occurs in str(suspiciousKeywords).lower()
MentionsUrgency(keywords) ==
  \E i \in 1..Len(keywords) : keywords[i] \in {"urgent", "immediately"}

\* ExtractedIntelligence.get_summary
get_summary(intel) ==
  LET items ==
        (IF intel.bankAccounts # <<>>
         THEN << ToString(Len(intel.bankAccounts)) \o " bank account(s)" >> ELSE <<>>)
        \o (IF intel.upiIds # <<>>
            THEN << ToString(Len(intel.upiIds)) \o " UPI ID(s)" >> ELSE <<>>)
        \o (IF intel.phishingLinks # <<>>
            THEN << ToString(Len(intel.phishingLinks)) \o " phishing link(s)" >> ELSE <<>>)
        \o (IF intel.phoneNumbers # <<>>
            THEN << ToString(Len(intel.phoneNumbers)) \o " phone number(s)" >> ELSE <<>>)
  IN  IF items # <<>> THEN Join(items, ", ") ELSE "No actionable intelligence"

generate_agent_notes(agent, extracted) ==
  LET tactics ==
        (IF MentionsUrgency(extracted.suspiciousKeywords)
         THEN << "urgency tactics" >> ELSE <<>>)
        \o (IF extracted.phishingLinks # <<>> THEN << "phishing links" >> ELSE <<>>)
        \o (IF extracted.upiIds # <<>> THEN << "UPI fraud" >> ELSE <<>>)
        \o (IF extracted.bankAccounts # <<>> THEN << "bank account fraud" >> ELSE <<>>)
      summary == get_summary(extracted)
      parts ==
        << "Scammer attempted " \o agent.scam_type \o "." >>
        \o (IF tactics # <<>> THEN << "Used " \o Join(tactics, " and ") \o "." >> ELSE <<>>)
        \o (IF summary # "No actionable intelligence"
            THEN << "Extracted: " \o summary \o "." >> ELSE <<>>)
        \o << "Engaged for " \o ToString(agent.turn_count) \o " turns." >>
  IN  Join(parts, " ")

(* -------------------------- core/database.py --------------------------- *)

NoRow(sid) == [present |-> FALSE, row |-> NewSession(sid)]

\* Database.save_session: reading session.detection_result, a name
\* SessionState does not have, raises AttributeError whenever detectionResult
\* is set; the except clause returns False and nothing is written
save_session(db, session) ==
  IF session.hasDetection
  THEN [ok |-> FALSE, db |-> db]
  ELSE [ok |-> TRUE,
        db |-> [db EXCEPT ![session.sessionId] = [present |-> TRUE, row |-> session]]]

\* Database.get_session
get_session(db, sid) ==
  IF db[sid].present
  THEN [found |-> TRUE, session |-> db[sid].row]
  ELSE [found |-> FALSE, session |-> NewSession(sid)]

\* Database.mark_callback_sent: an UPDATE, which changes no row when none
\* has this session id
mark_callback_sent(db, sid) ==
  IF db[sid].present THEN [db EXCEPT ![sid].row.callbackSent = TRUE] ELSE db

(* ----------------------------- app/main.py ----------------------------- *)

\* settings.API_KEY
API_KEY == "guvi-hackathon-secret-key"

\* the x-api-key header of a request: absent, or present with a value
NoHeader == [present |-> FALSE, value |-> ""]

Header(value) == [present |-> TRUE, value |-> value]

\* the headers a caller may send: none, an empty one, a wrong key, the key
ApiKeyHeaders == {NoHeader, Header(""), Header("not-the-key"), Header(API_KEY)}

\* "x_api_key: str = Header(...)" and verify_api_key: a request with no
\* header does not pass validation (422), an empty or wrong one is refused by
\* verify_api_key (401)
verify_api_key(x_api_key) ==
  IF ~x_api_key.present
  THEN [ok |-> FALSE, status |-> "422", detail |-> "Field required"]
  ELSE IF x_api_key.value = ""
  THEN [ok |-> FALSE, status |-> "401", detail |-> "Missing x-api-key header"]
  ELSE IF x_api_key.value # API_KEY
  THEN [ok |-> FALSE, status |-> "401", detail |-> "Invalid API key"]
  ELSE [ok |-> TRUE, status |-> "200", detail |-> ""]

Endpoints == {"scam-detection", "session", "force-callback"}

NeutralReply == "Thank you for the information. I'll look into this."

ErrorReply == "I'm sorry, I'm having trouble understanding. Could you repeat that?"

\* an except clause that answers with no reply text
ErrorWithoutReply == [status |-> "error", reply |-> ""]

\* the response of the except clause of scam_detection
ErrorResponse == [status |-> "error", reply |-> ErrorReply]

\* IncomingRequest: metadata is TRUE for a Metadata object (given, or the
\* default the model fills in) and FALSE for an explicit null
Requests ==
  [ sessionId : {"s1"}, message : InMsgs,
    conversationHistory : SeqsUpTo(HistMsgs, MaxHistory), metadata : BOOLEAN ]

\* the requests of the runs in which two handlers overlap
OverlapRequests ==
  [ sessionId : {"s1"}, message : {Msg("scammer", tUpi)},
    conversationHistory : SeqsUpTo({Msg("scammer", tHello)}, MaxHistory),
    metadata : BOOLEAN ]

\* the requests of the runs in which turns of one session, engaged and not,
\* of different scam types, overlap
EngineRequests ==
  [ sessionId : {"s1"},
    message : {Msg("scammer", tHello), Msg("scammer", tBlock), Msg("scammer", tUpi)},
    conversationHistory : SeqsUpTo({Msg("scammer", tHello)}, MaxHistory),
    metadata : BOOLEAN ]

\* the requests of the runs in which the scammer states more UPI ids than a
\* field holds
CapRequests ==
  [ sessionId : {"s1"},
    message : {Msg("scammer", tUpi), Msg("scammer", tSixUpi)},
    conversationHistory :
      SeqsUpTo({Msg("scammer", tUpi), Msg("scammer", tSixUpi)}, MaxHistory),
    metadata : BOOLEAN ]

\* the requests of the runs in which the scammer repeats one UPI id in
\* several spellings
UpiRequests ==
  [ sessionId : {"s1"}, message : {Msg("scammer", tUpi), Msg("scammer", tUpiCaps)},
    conversationHistory :
      SeqsUpTo({Msg("scammer", tUpi), Msg("scammer", tUpiCaps)}, MaxHistory),
    metadata : BOOLEAN ]

\* "for x in extracted: if x not in accumulated: accumulated.append(x)"
RECURSIVE MergeField(_, _)
MergeField(accumulated, extracted) ==
  IF extracted = <<>> THEN accumulated
  ELSE MergeField(IF Head(extracted) \in Range(accumulated) THEN accumulated
                  ELSE Append(accumulated, Head(extracted)),
                  Tail(extracted))

\* a merge that appends what the re-run extraction returns, once for the
\* extraction and once more for the merge, with no membership test
MergeAgainByAppend(intel, messages, seed) ==
  LET extracted_intel == Extract(messages, seed)
  IN  [f \in IntelFields |-> intel[f] \o extracted_intel[f] \o extracted_intel[f]]

\* step 2 of scam_detection: extract from the whole transcript and merge
\* into the intelligence of the session
AccumulateIntelligence(intel, messages, seed) ==
  LET extracted_intel == Extract(messages, seed)
  IN  [f \in IntelFields |-> MergeField(intel[f], extracted_intel[f])]

\* the current message, then the history messages whose (sender, text) is
\* not among the messages held before the loop starts
AddMessages(messages, request) ==
  LET with == Append(messages, request.message)
      existing == Range(with)
  IN  with \o SelectSeq(request.conversationHistory, LAMBDA m : m \notin existing)

ScammerCount(messages) == Len(SelectSeq(messages, LAMBDA m : m.sender = "scammer"))

should_send_callback(session) ==
  /\ session.detectionResult.scamDetected
  /\ ScammerCount(session.messages) >= MIN_TURNS_BEFORE_CALLBACK
  /\ ~session.callbackSent
  /\ has_intelligence(session.extractedIntelligence)

\* step 3 with a bound agent counting the turns it is not engaged in
EngageCountingEveryTurn(agent, detection, messages, intel) ==
  IF /\ detection.scamDetected
     /\ detection.confidenceScore >= SCAM_DETECTION_THRESHOLD
  THEN LET bound == IF agent.present THEN {agent}
                    ELSE {create_agent(detection.scamType, persona) :
                            persona \in SelectPersona(detection.scamType)}
       IN  { [engaged |-> TRUE,
              answer |-> generate_response(a, messages, intel, pick)] :
               a \in bound, pick \in 1..PoolPick }
  ELSE { [engaged |-> FALSE,
          answer |-> [agent |-> IF agent.present
                                THEN [agent EXCEPT !.turn_count = @ + 1] ELSE agent,
                      strategy |-> "none", reply |-> NeutralReply]] }

\* step 3 with "if session_id not in active_agents" always taken: a new
\* agent for every engaged turn
EngageWithNewAgent(agent, detection, messages, intel) ==
  IF /\ detection.scamDetected
     /\ detection.confidenceScore >= SCAM_DETECTION_THRESHOLD
  THEN { [engaged |-> TRUE,
          answer |-> generate_response(create_agent(detection.scamType, persona),
                                       messages, intel, pick)] :
           persona \in SelectPersona(detection.scamType), pick \in 1..PoolPick }
  ELSE { [engaged |-> FALSE,
          answer |-> [agent |-> agent, strategy |-> "none", reply |-> NeutralReply]] }

\* steps 3 of scam_detection: the outcomes of the engagement branch, one
\* for each draw of random.choice (the persona of a new agent, the member
\* of the reply pool), or the neutral reply
Engage(agent, detection, messages, intel) ==
  IF /\ detection.scamDetected
     /\ detection.confidenceScore >= SCAM_DETECTION_THRESHOLD
  THEN LET bound == IF agent.present THEN {agent}
                    ELSE {create_agent(detection.scamType, persona) :
                            persona \in SelectPersona(detection.scamType)}
       IN  { [engaged |-> TRUE,
              answer |-> generate_response(a, messages, intel, pick)] :
               a \in bound, pick \in 1..PoolPick }
  ELSE { [engaged |-> FALSE,
          answer |-> [agent |-> agent, strategy |-> "none", reply |-> NeutralReply]] }

\* the session object after steps 1 to 4: detection result, merged
\* intelligence, the agent's reply appended when engaged, the message count
UpdateSession(loaded, messages, detection, intel, turn) ==
  LET messages1 == IF turn.engaged
                   THEN Append(messages, Msg("agent", turn.answer.reply))
                   ELSE messages
  IN  [loaded EXCEPT
         !.messages = messages1,
         !.hasDetection = TRUE,
         !.detectionResult = detection,
         !.extractedIntelligence = intel,
         !.totalMessagesExchanged = Len(messages1)]

\* the callback branch without its two lines on agentNotes
WithoutNotes(session, agent) == session

\* "if session_id in active_agents: session.agentNotes = ..." of the
\* callback branch
WithNotes(session, agent) ==
  IF agent.present
  THEN [session EXCEPT
          !.agentNotes = generate_agent_notes(agent, session.extractedIntelligence)]
  ELSE session

\* a handler that sets callbackSent whatever send_guvi_callback returned
LatchRegardless(session, callback_success) ==
  [session EXCEPT !.callbackSent = TRUE]

\* the callbackSent flag of the handler's session after send_guvi_callback
\* has returned callback_success
AfterCallback(session, callback_success) ==
  IF callback_success THEN [session EXCEPT !.callbackSent = TRUE] ELSE session

\* force_callback between get_session and send_guvi_callback
ForceNotes(session, agent) ==
  IF session.agentNotes # "" THEN session
  ELSE IF agent.present
  THEN [session EXCEPT !.agentNotes = generate_agent_notes(agent, session.extractedIntelligence)]
  ELSE [session EXCEPT !.agentNotes =
          "Scam detected: " \o (IF session.hasDetection
                                THEN session.detectionResult.scamType ELSE "unknown")]

(* ------------------------------- state --------------------------------- *)

VARIABLES
  db,             \* the sessions table: session id -> row
  active_agents,  \* the registry of main.py: session id -> agent
  hashSeed,       \* the string hash seed of the interpreter
  h,              \* the requests in flight, one per handler slot
  accepted,       \* requests accepted so far
  delivered,      \* per session: callbacks the endpoint answered with 200
  failed,         \* per session: a callback delivery has failed
  lastIntel,      \* per session: the intelligence at the end of its last turn
  probe           \* one call of a function of the program: arguments and result

vars ==
  << db, active_agents, hashSeed, h, accepted, delivered, failed, lastIntel,
     probe >>

\* no function has been called on its own
NoProbe == [op |-> "none"]

\* a handler slot: where the handler is (pc), its local variables (session,
\* reply), its response (status, reply), and what it has seen: called and
\* outcome of send_guvi_callback in this request, and whether a delivery of
\* its session had succeeded or failed when the request arrived
IdleHandler ==
  [ pc |-> "idle", kind |-> "none", sessionId |-> "", session |-> NewSession(""),
    status |-> "none", reply |-> "", raised |-> FALSE,
    called |-> FALSE, outcome |-> "none",
    priorDelivered |-> FALSE, priorFailed |-> FALSE ]

\* between the load of the session and the last save: the handler of a turn
\* is suspended at an await
InFlight(hd) == h[hd].pc \in {"save_before", "callback", "mark", "save_final"}

Init ==
  /\ db = [s \in SessionIds |-> NoRow(s)]
  /\ active_agents = [s \in SessionIds |-> NoAgent]
  /\ hashSeed \in HashSeeds
  /\ h = [hd \in Handlers |-> IdleHandler]
  /\ accepted = 0
  /\ delivered = [s \in SessionIds |-> 0]
  /\ failed = [s \in SessionIds |-> FALSE]
  /\ lastIntel = [s \in SessionIds |-> EmptyIntelligence]
  /\ probe = NoProbe

(* ------------------------------ actions -------------------------------- *)

\* a handler that keeps one agent for all sessions
ReceiveWithOneAgent(hd, request) ==
  /\ h[hd].pc = "idle"
  /\ accepted < MaxRequests
  /\ accepted' = accepted + 1
  /\ LET sid == request.sessionId
         loaded == get_session(db, sid).session
         arrived == [IdleHandler EXCEPT
                       !.kind = "turn", !.sessionId = sid,
                       !.priorDelivered = delivered[sid] > 0,
                       !.priorFailed = failed[sid]]
     IN  IF request.metadata
         THEN /\ h' = [h EXCEPT ![hd] =
                        [arrived EXCEPT
                           !.pc = "done", !.status = ErrorResponse.status,
                           !.reply = ErrorResponse.reply, !.raised = TRUE]]
              /\ active_agents' = active_agents
         ELSE \E messages \in {AddMessages(loaded.messages, request)} :
              \E detection \in {Detect(messages)} :
              \E intel \in {AccumulateIntelligence(loaded.extractedIntelligence,
                                                   messages, hashSeed)} :
              \E turn \in Engage(active_agents[sid], detection, messages, intel) :
              \E session \in {UpdateSession(loaded, messages, detection, intel, turn)} :
                /\ h' = [h EXCEPT ![hd] =
                          IF should_send_callback(session)
                          THEN [arrived EXCEPT
                                  !.pc = "save_before",
                                  !.session = WithNotes(session, turn.answer.agent),
                                  !.reply = turn.answer.reply]
                          ELSE [arrived EXCEPT
                                  !.pc = "save_final", !.session = session,
                                  !.reply = turn.answer.reply]]
                /\ active_agents' = [s \in SessionIds |-> turn.answer.agent]
  /\ UNCHANGED probe
  /\ UNCHANGED << db, hashSeed, delivered, failed, lastIntel >>

\* POST /api/scam-detection: get_session and the handler up to its next
\* await.  "session.metadata = ..." raises for every Metadata object, as
\* SessionState has no field of that name; the except clause answers
Receive(hd, request) ==
  /\ h[hd].pc = "idle"
  /\ accepted < MaxRequests
  /\ accepted' = accepted + 1
  /\ LET sid == request.sessionId
         loaded == get_session(db, sid).session
         arrived == [IdleHandler EXCEPT
                       !.kind = "turn", !.sessionId = sid,
                       !.priorDelivered = delivered[sid] > 0,
                       !.priorFailed = failed[sid]]
     IN  IF request.metadata
         THEN /\ h' = [h EXCEPT ![hd] =
                        [arrived EXCEPT
                           !.pc = "done", !.status = ErrorResponse.status,
                           !.reply = ErrorResponse.reply, !.raised = TRUE]]
              /\ active_agents' = active_agents
         ELSE \E messages \in {AddMessages(loaded.messages, request)} :
              \E detection \in {Detect(messages)} :
              \E intel \in {AccumulateIntelligence(loaded.extractedIntelligence,
                                                   messages, hashSeed)} :
              \E turn \in Engage(active_agents[sid], detection, messages, intel) :
              \E session \in {UpdateSession(loaded, messages, detection, intel, turn)} :
                /\ h' = [h EXCEPT ![hd] =
                          IF should_send_callback(session)
                          THEN [arrived EXCEPT
                                  !.pc = "save_before",
                                  !.session = WithNotes(session, turn.answer.agent),
                                  !.reply = turn.answer.reply]
                          ELSE [arrived EXCEPT
                                  !.pc = "save_final", !.session = session,
                                  !.reply = turn.answer.reply]]
                /\ active_agents' = [active_agents EXCEPT ![sid] = turn.answer.agent]
  /\ UNCHANGED probe
  /\ UNCHANGED << db, hashSeed, delivered, failed, lastIntel >>

\* "await save_session(session)" before the callback
SaveBeforeCallback(hd) ==
  /\ h[hd].pc = "save_before"
  /\ db' = save_session(db, h[hd].session).db
  /\ h' = [h EXCEPT ![hd].pc = "callback"]
  /\ UNCHANGED probe
  /\ UNCHANGED << active_agents, hashSeed, accepted, delivered, failed, lastIntel >>

\* "await send_guvi_callback(session)" of scam_detection and of
\* force_callback; callback_success is what send_callback returns: True on
\* status 200, False on any other status, a timeout or an exception
SendCallback(hd, callback_success) ==
  /\ h[hd].pc = "callback"
  /\ LET sid == h[hd].sessionId
     IN  /\ h' = [h EXCEPT ![hd] =
                   [@ EXCEPT
                      !.session = AfterCallback(h[hd].session, callback_success),
                      !.called = TRUE,
                      !.outcome = IF callback_success THEN "ok" ELSE "fail",
                      !.pc = IF callback_success THEN "mark"
                             ELSE IF h[hd].kind = "turn" THEN "save_final"
                             ELSE "done",
                      !.status = IF ~callback_success /\ h[hd].kind = "force"
                                 THEN "error" ELSE @,
                      !.reply = IF ~callback_success /\ h[hd].kind = "force"
                                THEN "Callback failed" ELSE @]]
         /\ delivered' = [delivered EXCEPT ![sid] = IF callback_success THEN @ + 1 ELSE @]
         /\ failed' = [failed EXCEPT ![sid] = @ \/ ~callback_success]
  /\ UNCHANGED probe
  /\ UNCHANGED << db, active_agents, hashSeed, accepted, lastIntel >>

\* "await mark_callback_sent(session_id)"
MarkCallbackSent(hd) ==
  /\ h[hd].pc = "mark"
  /\ db' = mark_callback_sent(db, h[hd].sessionId)
  /\ h' = [h EXCEPT ![hd] =
            IF h[hd].kind = "turn" THEN [@ EXCEPT !.pc = "save_final"]
            ELSE [@ EXCEPT !.pc = "done", !.status = "success",
                           !.reply = "Callback sent successfully"]]
  /\ UNCHANGED probe
  /\ UNCHANGED << active_agents, hashSeed, accepted, delivered, failed, lastIntel >>

\* a last step that answers status error when the delivery of the callback
\* has failed
SaveFinalReportingFailure(hd) ==
  /\ h[hd].pc = "save_final"
  /\ db' = save_session(db, h[hd].session).db
  /\ h' = [h EXCEPT ![hd] =
            [@ EXCEPT !.pc = "done",
                      !.status = IF h[hd].outcome = "fail" THEN "error" ELSE "success"]]
  /\ UNCHANGED probe
  /\ UNCHANGED << active_agents, hashSeed, accepted, delivered, failed, lastIntel >>

\* the last "await save_session(session)", whose result is not looked at,
\* and the AgentResponse
SaveFinal(hd) ==
  /\ h[hd].pc = "save_final"
  /\ db' = save_session(db, h[hd].session).db
  /\ h' = [h EXCEPT ![hd] = [@ EXCEPT !.pc = "done", !.status = "success"]]
  /\ UNCHANGED probe
  /\ UNCHANGED << active_agents, hashSeed, accepted, delivered, failed, lastIntel >>

\* the response leaves the handler
Respond(hd) ==
  /\ h[hd].pc = "done"
  /\ h' = [h EXCEPT ![hd] = IdleHandler]
  /\ lastIntel' =
       IF h[hd].kind = "turn" /\ h[hd].status = "success"
       THEN [lastIntel EXCEPT ![h[hd].sessionId] = h[hd].session.extractedIntelligence]
       ELSE lastIntel
  /\ UNCHANGED probe
  /\ UNCHANGED << db, active_agents, hashSeed, accepted, delivered, failed >>

\* POST /api/force-callback/{session_id} up to its next await
ForceCallback(hd, sid) ==
  /\ h[hd].pc = "idle"
  /\ accepted < MaxRequests
  /\ accepted' = accepted + 1
  /\ LET found == get_session(db, sid)
         arrived == [IdleHandler EXCEPT
                       !.kind = "force", !.sessionId = sid,
                       !.priorDelivered = delivered[sid] > 0,
                       !.priorFailed = failed[sid]]
     IN  h' = [h EXCEPT ![hd] =
                IF ~found.found
                THEN [arrived EXCEPT
                        !.pc = "done", !.status = "not_found",
                        !.reply = "Session not found"]
                ELSE [arrived EXCEPT
                        !.pc = "callback",
                        !.session = ForceNotes(found.session, active_agents[sid])]]
  /\ UNCHANGED probe
  /\ UNCHANGED << db, active_agents, hashSeed, delivered, failed, lastIntel >>

\* one step of the handler in slot hd, its request drawn from requests
Step(hd, requests) ==
  \/ \E request \in requests : Receive(hd, request)
  \/ SaveBeforeCallback(hd)
  \/ \E callback_success \in BOOLEAN : SendCallback(hd, callback_success)
  \/ MarkCallbackSent(hd)
  \/ SaveFinal(hd)
  \/ Respond(hd)
  \/ \E sid \in {request.sessionId : request \in requests} : ForceCallback(hd, sid)

\* requests are handled one at a time
Next == Step("h1", Requests)

Spec == Init /\ [][Next]_vars

\* two requests may be in flight: the event loop runs one handler until it
\* awaits and then any handler that is ready
NextOverlap == \E hd \in Handlers : Step(hd, OverlapRequests)

SpecOverlap == Init /\ [][NextOverlap]_vars

\* overlapping turns of one session, some below the threshold
NextEngines == \E hd \in Handlers : Step(hd, EngineRequests)

SpecEngines == Init /\ [][NextEngines]_vars

\* turns of one session in which the scammer states six UPI ids
NextCaps == Step("h1", CapRequests)

SpecCaps == Init /\ [][NextCaps]_vars

(* ---------------------------- two sessions ---------------------------- *)

\* the requests of session sid in the runs of two sessions
SessionRequests(sid) ==
  [ sessionId : {sid}, message : {Msg("scammer", tUpi)},
    conversationHistory : SeqsUpTo({Msg("scammer", tUpiCaps)}, MaxHistory),
    metadata : BOOLEAN ]

\* turns of two sessions, each in its own handler, interleaved at the awaits
NextSessions ==
  \/ Step("h1", SessionRequests("s1"))
  \/ Step("h2", SessionRequests("s2"))

SpecSessions == Init /\ [][NextSessions]_vars

(* --------------------------- authentication --------------------------- *)

\* a refusal that comes after the work of the endpoint: the agent of the
\* session has been advanced when the key is looked at
RefuseAfterWork(hd, endpoint, sid, x_api_key) ==
  /\ h[hd].pc = "idle"
  /\ accepted < MaxRequests
  /\ ~verify_api_key(x_api_key).ok
  /\ accepted' = accepted + 1
  /\ h' = [h EXCEPT ![hd] =
            [IdleHandler EXCEPT
               !.pc = "done", !.kind = "refused " \o endpoint, !.sessionId = sid,
               !.status = verify_api_key(x_api_key).status,
               !.reply = verify_api_key(x_api_key).detail]]
  /\ active_agents' = [active_agents EXCEPT ![sid].turn_count = @ + 1]
  /\ UNCHANGED probe
  /\ UNCHANGED << db, hashSeed, delivered, failed, lastIntel >>

\* a request to one of the three endpoints that the header validation or
\* "await verify_api_key(x_api_key)", the first statement of each handler,
\* refuses: the HTTPException leaves the handler before anything else runs.
\* Receive and ForceCallback are the requests that carry the key.
Refuse(hd, endpoint, sid, x_api_key) ==
  /\ h[hd].pc = "idle"
  /\ accepted < MaxRequests
  /\ ~verify_api_key(x_api_key).ok
  /\ accepted' = accepted + 1
  /\ h' = [h EXCEPT ![hd] =
            [IdleHandler EXCEPT
               !.pc = "done", !.kind = "refused " \o endpoint, !.sessionId = sid,
               !.status = verify_api_key(x_api_key).status,
               !.reply = verify_api_key(x_api_key).detail]]
  /\ UNCHANGED probe
  /\ UNCHANGED << db, active_agents, hashSeed, delivered, failed, lastIntel >>

\* GET /api/session/{session_id} with the key: a read of the store
GetSessionState(hd, sid) ==
  /\ h[hd].pc = "idle"
  /\ accepted < MaxRequests
  /\ accepted' = accepted + 1
  /\ LET found == get_session(db, sid)
     IN  h' = [h EXCEPT ![hd] =
                [IdleHandler EXCEPT
                   !.pc = "done", !.kind = "inspect", !.sessionId = sid,
                   !.session = found.session,
                   !.status = IF found.found THEN "success" ELSE "not_found",
                   !.reply = IF found.found THEN "" ELSE "Session not found"]]
  /\ UNCHANGED probe
  /\ UNCHANGED << db, active_agents, hashSeed, delivered, failed, lastIntel >>

\* the three endpoints, called with and without the key
NextAuth ==
  \/ Step("h1", UpiRequests)
  \/ GetSessionState("h1", "s1")
  \/ \E endpoint \in Endpoints, x_api_key \in ApiKeyHeaders :
       Refuse("h1", endpoint, "s1", x_api_key)

SpecAuth == Init /\ [][NextAuth]_vars

\* the runs in which the scammer repeats one UPI id
NextUpi == Step("h1", UpiRequests)

SpecUpi == Init /\ [][NextUpi]_vars

(* --------------------------- one agent alone -------------------------- *)

\* the transcripts of the turns of a session in which the scammer names a
\* way of paying, with and without an id, or a link
AgentTranscripts ==
  SeqsUpTo({Msg("scammer", tBlock), Msg("scammer", tPayUpi),
            Msg("scammer", tUpiBank), Msg("scammer", tUpi),
            Msg("scammer", tClick)}, MaxHistory)

\* steps 1 and 2 of scam_detection on each of these transcripts, for each
\* hash seed: the detection result and the intelligence of the session;
\* only the turns in which a scam is detected reach step 3
AgentTurns ==
  { turn \in { [ messages |-> messages, seed |-> seed,
                  detection |-> Detect(messages),
                  intel |-> AccumulateIntelligence(EmptyIntelligence, messages, seed) ] :
                  messages \in AgentTranscripts \ {<<>>}, seed \in HashSeeds } :
      /\ turn.detection.scamDetected
      /\ turn.detection.confidenceScore >= SCAM_DETECTION_THRESHOLD }

\* step 3 of scam_detection on the agent of session "s1": the agent is
\* created at the first call and kept in active_agents; each call is made on
\* the transcript of a turn and the intelligence extracted from it
CallGenerateResponse ==
  /\ active_agents["s1"].turn_count < MaxTurns
  /\ \E input \in {turn \in AgentTurns : turn.seed = hashSeed} :
     \E turn \in Engage(active_agents["s1"], input.detection, input.messages,
                        input.intel) :
       /\ active_agents' = [active_agents EXCEPT !["s1"] = turn.answer.agent]
       /\ probe' = [ op |-> "generate_response",
                     scammer_msg |-> input.messages[Len(input.messages)].text,
                     extracted |-> input.intel,
                     before |-> active_agents["s1"],
                     strategy |-> turn.answer.strategy,
                     reply |-> turn.answer.reply ]
  /\ UNCHANGED << db, hashSeed, h, accepted, delivered, failed, lastIntel >>

NextAgent == CallGenerateResponse

SpecAgent == Init /\ [][NextAgent]_vars

(* ----------------------- functions called alone ------------------------ *)

\* the variables of the handlers, which a call of a function alone leaves as
\* they are
machine == << db, active_agents, hashSeed, h, accepted, delivered, failed, lastIntel >>

\* the transcripts a function is called on
Transcripts == SeqsUpTo(InMsgs \cup HistMsgs, MaxHistory + 1)

\* detect(messages) evaluated twice, in interpreters whose string hash seeds
\* are first and second (one interpreter when they are equal)
CallDetectTwice ==
  /\ probe = NoProbe
  /\ \E messages \in Transcripts, first, second \in HashSeeds :
       probe' = [ op |-> "detect", messages |-> messages,
                  seeds |-> << first, second >>,
                  results |-> << ScamDetectionResult(CategoryMatches(messages), first),
                                 ScamDetectionResult(CategoryMatches(messages), second) >> ]
  /\ UNCHANGED machine

\* the category_matches dicts detect is carried on from: every combination
\* of matched categories, each with up to MaxRules of its rules matching
MatchCounts == [CategorySet -> {1..k : k \in 0..MaxRules}]

\* detect from its category_matches dict on: confidence, threshold and type
CallDetectMatches ==
  /\ probe = NoProbe
  /\ \E category_matches \in MatchCounts :
       probe' = [ op |-> "classify", category_matches |-> category_matches,
                  result |-> DetectMatches(category_matches) ]
  /\ UNCHANGED machine

\* steps 1 to 3 of scam_detection on a request without metadata, up to the
\* search of generate_response for the last scammer message; only turns
\* whose detection crosses the threshold reach it
CallEngagedTurn ==
  /\ probe = NoProbe
  /\ \E request \in {r \in Requests : ~r.metadata} :
     \E loaded \in {get_session(db, request.sessionId).session} :
     \E messages \in {AddMessages(loaded.messages, request)} :
     \E detection \in {Detect(messages)} :
       /\ detection.scamDetected
       /\ detection.confidenceScore >= SCAM_DETECTION_THRESHOLD
       /\ probe' = [ op |-> "engaged_turn", request |-> request,
                     messages |-> messages,
                     last_scammer_msg |-> last_scammer_msg(messages) ]
  /\ UNCHANGED machine

\* scammer messages that state URLs
LinkTexts == {tLinks, tPort, tCapsLink, tUnknown, tHello}

LinkTranscripts == SeqsUpTo({Msg("scammer", t) : t \in LinkTexts}, MaxHistory + 1)

\* _extract_phishing_links on the scammer text of a transcript
CallExtractPhishingLinks ==
  /\ probe = NoProbe
  /\ \E messages \in LinkTranscripts :
       probe' = [ op |-> "phishing_links", messages |-> messages,
                  result |-> ExtractField(messages, "phishing_link") ]
  /\ UNCHANGED machine

\* scammer messages that state payment addresses and e-mail addresses
UpiTexts == {tUpi, tUpiCaps, tMail, tHello}

UpiTranscripts == SeqsUpTo({Msg("scammer", t) : t \in UpiTexts}, MaxHistory + 1)

\* _extract_upi_ids on the scammer text of a transcript
CallExtractUpiIds ==
  /\ probe = NoProbe
  /\ \E messages \in UpiTranscripts :
       probe' = [ op |-> "upi_ids", messages |-> messages,
                  result |-> ExtractField(messages, "upi_id") ]
  /\ UNCHANGED machine

\* detect from its category_matches dict on, in a process configured with
\* one of the thresholds
CallDetectWithThreshold ==
  /\ probe = NoProbe
  /\ \E category_matches \in MatchCounts, threshold \in Thresholds :
       probe' = [ op |-> "threshold", category_matches |-> category_matches,
                  threshold |-> threshold,
                  result |-> DetectWithThreshold(category_matches, threshold) ]
  /\ UNCHANGED machine

\* messages for extract: the ones that state a value, from each kind of sender
ExtractMsgs ==
  { Msg("scammer", tUpi), Msg("scammer", tCall), Msg("scammer", tBlock),
    Msg("agent", tUpi), Msg("user", tCall) }

ExtractTranscripts == SeqsUpTo(ExtractMsgs, MaxHistory + 1)

\* extract(messages) on two transcripts with the same scammer-authored
\* messages in the same order, in one interpreter
CallExtractPair ==
  /\ probe = NoProbe
  /\ \E first \in ExtractTranscripts :
     \E scammer \in {SelectSeq(first, LAMBDA m : m.sender = "scammer")} :
     \E second \in {t \in ExtractTranscripts :
                      SelectSeq(t, LAMBDA m : m.sender = "scammer") = scammer} :
     \E seed \in HashSeeds :
       probe' = [ op |-> "extract_pair", messages |-> << first, second >>,
                  results |-> << Extract(first, seed), Extract(second, seed) >> ]
  /\ UNCHANGED machine

\* transcripts of scammer messages that spell phone numbers: with and
\* without +91, with a space inside, with 9, 10, 11 and 12 digits
PhoneTranscripts ==
  SeqsUpTo({Msg("scammer", tCall), Msg("scammer", tPhones), Msg("scammer", tPhone12)},
           MaxHistory + 1)

\* _extract_phone_numbers on the scammer text of a transcript
CallExtractPhoneNumbers ==
  /\ probe = NoProbe
  /\ \E messages \in PhoneTranscripts :
       probe' = [ op |-> "phone_numbers", messages |-> messages,
                  matches |-> Candidates(messages, "phone_number"),
                  result |-> ExtractField(messages, "phone_number") ]
  /\ UNCHANGED machine

\* the first lines of scam_detection: the session is loaded (none is ever
\* found, see save_session), the incoming message is appended and the
\* conversation history merged
CallAddMessages ==
  /\ probe = NoProbe
  /\ \E request \in Requests :
     \E loaded \in {get_session(db, request.sessionId).session} :
       probe' = [ op |-> "add_messages", request |-> request,
                  loaded |-> loaded.messages,
                  result |-> AddMessages(loaded.messages, request) ]
  /\ UNCHANGED machine

\* one function is called, once, on arguments drawn from the sets above
NextFunctions ==
  \/ CallDetectTwice
  \/ CallDetectMatches
  \/ CallExtractPair
  \/ CallExtractPhoneNumbers
  \/ CallAddMessages
  \/ CallDetectWithThreshold
  \/ CallExtractPhishingLinks
  \/ CallExtractUpiIds
  \/ CallEngagedTurn

SpecFunctions == Init /\ [][NextFunctions]_vars

(* ----------------------------- properties ------------------------------- *)

\* C1: in a run that handles the requests of a session one at a time, a
\* turn that arrives after a turn of its session has set callbackSent (the
\* delivery returned success) does not invoke the callback.
C1_NoCallbackAfterLatch ==
  \A hd \in Handlers :
    h[hd].kind = "turn" /\ h[hd].priorDelivered => ~h[hd].called

\* C2: over any sequence of turns and forced callbacks of a session, the
\* callback is delivered successfully at most once.
C2_DeliveredAtMostOnce ==
  \A s \in SessionIds : delivered[s] <= 1

\* C3: at the end of a successful turn, each of the six intelligence fields
\* of the session holds every value it held at the end of the session's
\* previous turn.
C3_NoValueLost ==
  \A hd \in Handlers :
    h[hd].kind = "turn" /\ h[hd].pc = "done" /\ h[hd].status = "success"
    => \A f \in IntelFields :
         Range(lastIntel[h[hd].sessionId][f])
           \subseteq Range(h[hd].session.extractedIntelligence[f])

\* C4: when a turn returns status success, the store holds a row for its
\* session whose messages, intelligence and callbackSent are those of the
\* session object at the end of the turn.
C4_StoredAfterSuccess ==
  \A hd \in Handlers :
    h[hd].kind = "turn" /\ h[hd].pc = "done" /\ h[hd].status = "success"
    => LET found == get_session(db, h[hd].sessionId)
       IN  /\ found.found
           /\ found.session.messages = h[hd].session.messages
           /\ found.session.extractedIntelligence
                = h[hd].session.extractedIntelligence
           /\ found.session.callbackSent = h[hd].session.callbackSent

\* C5: a turn that has finished answers with status success or error and a
\* reply that is not empty; a turn in which a step raised has finished, with
\* status error and the fixed apology.
C5_AlwaysAnswered ==
  \A hd \in Handlers :
    h[hd].kind = "turn"
    => /\ h[hd].raised => h[hd].pc = "done"
       /\ h[hd].pc = "done"
          => /\ h[hd].status \in {"success", "error"}
             /\ h[hd].reply # ""
             /\ h[hd].raised
                => /\ h[hd].status = "error"
                   /\ h[hd].reply
                        = "I'm sorry, I'm having trouble understanding. Could you repeat that?"

\* C5, its case: a turn in which a step raised has been answered.
C5_RaisedTurnAnswered ==
  \E hd \in Handlers :
    h[hd].kind = "turn" /\ h[hd].pc = "done" /\ h[hd].raised

\* C6: no two turns of one session are in flight (between the load of the
\* session and the last save) at the same time.
C6_OneTurnInFlight ==
  \A a, b \in Handlers :
    /\ a # b
    /\ h[a].kind = "turn" /\ InFlight(a)
    /\ h[b].kind = "turn" /\ InFlight(b)
    => h[a].sessionId # h[b].sessionId

\* C8: a turn that has got past its pipeline goes on to the callback exactly
\* when, on its session as updated by the turn, scamDetected holds, at least
\* 3 messages are scammer-authored, callbackSent is false and one of bank
\* accounts, IFSC codes, UPI ids, phishing links, phone numbers is not empty.
C8_CallbackIffReady ==
  \A hd \in Handlers :
    h[hd].kind = "turn" /\ ~h[hd].called
      /\ h[hd].pc \in {"save_before", "callback", "save_final"}
    => LET s == h[hd].session
           scammer == {i \in DOMAIN s.messages : s.messages[i].sender = "scammer"}
           identifiers == {"bankAccounts", "ifscCodes", "upiIds", "phishingLinks",
                           "phoneNumbers"}
       IN  h[hd].pc \in {"save_before", "callback"}
           <=> /\ s.detectionResult.scamDetected
               /\ Cardinality(scammer) >= 3
               /\ ~s.callbackSent
               /\ \E f \in identifiers : s.extractedIntelligence[f] # <<>>

\* C8, its case: a turn is about to invoke the callback.
C8_TurnInvokesCallback ==
  \E hd \in Handlers :
    /\ h[hd].kind = "turn" /\ h[hd].pc = "callback"
    /\ h[hd].session.extractedIntelligence.suspiciousKeywords # <<>>

\* C9: a delivery that failed leaves callbackSent of the turn's session
\* false and one that succeeded makes it true; a turn that arrives after a
\* failed delivery of its session and ends without invoking the callback is
\* one at which readiness does not hold.
C9_RetryAfterFailure ==
  \A hd \in Handlers :
    h[hd].kind = "turn"
    => /\ h[hd].outcome = "fail" => ~h[hd].session.callbackSent
       /\ h[hd].outcome = "ok" => h[hd].session.callbackSent
       /\ h[hd].priorFailed /\ ~h[hd].called /\ h[hd].pc \in {"save_final", "done"}
            /\ ~h[hd].raised
          => LET s == h[hd].session
                 scammer == {i \in DOMAIN s.messages : s.messages[i].sender = "scammer"}
             IN  ~ /\ s.detectionResult.scamDetected
                   /\ Cardinality(scammer) >= 3
                   /\ ~s.callbackSent
                   /\ \E f \in IntelFields \ {"suspiciousKeywords"} :
                        s.extractedIntelligence[f] # <<>>

\* C9, its case: a turn that arrived after a failed delivery of its session
\* has invoked the callback again, the delivery has succeeded and
\* callbackSent is true.
C9_RetrySucceeded ==
  \E hd \in Handlers :
    /\ h[hd].kind = "turn" /\ h[hd].priorFailed
    /\ h[hd].called /\ h[hd].outcome = "ok"
    /\ h[hd].session.callbackSent

\* C10: no intelligence sequence of a session, in a handler, in the store
\* or at the end of the session's last turn, holds a value twice.
C10_NoDuplicateValues ==
  LET NoDuplicates(seq) ==
        \A i, j \in DOMAIN seq : i # j => seq[i] # seq[j]
  IN  /\ \A hd \in Handlers, f \in IntelFields :
           NoDuplicates(h[hd].session.extractedIntelligence[f])
      /\ \A s \in SessionIds, f \in IntelFields :
           /\ NoDuplicates(db[s].row.extractedIntelligence[f])
           /\ NoDuplicates(lastIntel[s][f])

\* C10, its case: the second turn of a session whose transcript holds the
\* message with the UPI id twice, the id having been extracted in the turn
\* before as well; upiIds holds it once.
C10_RepeatedValueHeldOnce ==
  \E hd \in Handlers :
    /\ h[hd].kind = "turn" /\ h[hd].pc = "done" /\ h[hd].status = "success"
    /\ lastIntel[h[hd].sessionId].upiIds = << "refund@phonepe" >>
    /\ \E i, j \in DOMAIN h[hd].session.messages :
         /\ i # j
         /\ h[hd].session.messages[i] = Msg("scammer", tUpi)
         /\ h[hd].session.messages[j] = Msg("scammer", tUpi)
    /\ h[hd].session.extractedIntelligence.upiIds = << "refund@phonepe" >>

\* C11: two evaluations of detect on the same message sequence return the
\* same ScamDetectionResult in every field.
C11_DetectDeterministic ==
  probe.op = "detect" => probe.results[1] = probe.results[2]

\* C12: for every combination of matched categories and matched-rule counts
\* per category the confidence score of the result lies between 0 and 0.99
\* (in hundredths: between 0 and 99); so does that of every transcript.
C12_ConfidenceBounds ==
  /\ probe.op = "classify"
     => probe.result.confidenceScore >= 0 /\ probe.result.confidenceScore <= 99
  /\ probe.op = "detect"
     => probe.results[1].confidenceScore >= 0 /\ probe.results[1].confidenceScore <= 99

\* C12, its case: every category matched, each with three rules or more; the
\* sum of the terms is above 0.99 and the score is 0.99.
C12_CappedScore ==
  /\ probe.op = "classify"
  /\ \A c \in CategorySet : Cardinality(probe.category_matches[c]) >= 3
  /\ probe.result.confidenceScore = 99

\* C13: the scam type is that of the first matched category in the order
\* upi_fraud, bank_fraud, phishing, fake_offers, otp_pin_harvesting; phishing
\* when none of the five matched and urgency or suspicious_keywords did;
\* unknown when nothing matched.
C13_TypePriority ==
  probe.op = "classify"
  => LET priority == << "upi_fraud", "bank_fraud", "phishing", "fake_offers",
                        "otp_pin_harvesting" >>
         typeOf == [ upi_fraud |-> "upi_fraud", bank_fraud |-> "bank_fraud",
                     phishing |-> "phishing", fake_offers |-> "fake_offer",
                     otp_pin_harvesting |-> "otp_harvesting" ]
         hit == {i \in 1..5 : probe.category_matches[priority[i]] # {}}
         others == \E c \in {"urgency", "suspicious_keywords"} :
                     probe.category_matches[c] # {}
     IN  probe.result.scamType =
           IF hit # {}
           THEN typeOf[priority[CHOOSE i \in hit : \A j \in hit : i <= j]]
           ELSE IF others THEN "phishing" ELSE "unknown"

\* C13, its case: bank_fraud and phishing matched, upi_fraud did not; the
\* type is bank fraud.
C13_BankBeforePhishing ==
  /\ probe.op = "classify"
  /\ probe.category_matches["bank_fraud"] # {}
  /\ probe.category_matches["phishing"] # {}
  /\ probe.category_matches["upi_fraud"] = {}
  /\ probe.result.scamType = "bank_fraud"

\* C14: two transcripts with the same scammer-authored messages in the same
\* order, whatever their agent- and user-authored messages, give the same
\* ExtractedIntelligence; no value that only an agent or user message states
\* is extracted.
C14_OnlyScammerMessages ==
  probe.op = "extract_pair"
  => /\ probe.results[1] = probe.results[2]
     /\ \A k \in 1..2 :
          LET said(text) == \E i \in DOMAIN probe.messages[k] :
                              probe.messages[k][i] = Msg("scammer", text)
          IN  /\ ~said(tUpi) => probe.results[k].upiIds = <<>>
              /\ ~said(tCall) => probe.results[k].phoneNumbers = <<>>
                                 /\ probe.results[k].bankAccounts = <<>>

\* C14, its case: one transcript holds the UPI id in an agent message and the
\* phone number in a user message, the other holds neither, no scammer
\* message states them, and nothing of them is extracted.
C14_AgentValueNotExtracted ==
  /\ probe.op = "extract_pair"
  /\ \E i, j \in DOMAIN probe.messages[1] :
       /\ probe.messages[1][i] = Msg("agent", tUpi)
       /\ probe.messages[1][j] = Msg("user", tCall)
  /\ \A i \in DOMAIN probe.messages[2] : probe.messages[2][i].sender = "scammer"
  /\ probe.results[1].upiIds = <<>>
  /\ probe.results[1].phoneNumbers = <<>>
  /\ probe.results[1].suspiciousKeywords # <<>>

\* C15: at the end of a successful turn whose scammer-authored transcript
\* holds the UPI id two or more times, in whatever letter case, in one
\* message or in several, the extraction result of the transcript and the
\* intelligence of the session both hold the id, lower-cased, exactly once
\* and in no other spelling.
C15_UpiHeldOnce ==
  \A hd \in Handlers :
    h[hd].kind = "turn" /\ h[hd].pc = "done" /\ h[hd].status = "success"
    => LET messages == h[hd].session.messages
           holding(text) ==
             Cardinality({i \in DOMAIN messages : messages[i] = Msg("scammer", text)})
           occurrences == holding(tUpi) + 2 * holding(tUpiCaps)
       IN  occurrences >= 2
           => /\ Extract(messages, hashSeed).upiIds = << "refund@phonepe" >>
              /\ h[hd].session.extractedIntelligence.upiIds = << "refund@phonepe" >>

\* C15, its case: the second turn of a session; the turn before extracted
\* the id from one spelling, and the transcript of this turn holds the id in
\* three spellings, in two messages.
C15_ThreeSpellingsTwoTurns ==
  \E hd \in Handlers :
    /\ h[hd].kind = "turn" /\ h[hd].pc = "done" /\ h[hd].status = "success"
    /\ lastIntel[h[hd].sessionId].upiIds = << "refund@phonepe" >>
    /\ \E i, j \in DOMAIN h[hd].session.messages :
         /\ h[hd].session.messages[i] = Msg("scammer", tUpi)
         /\ h[hd].session.messages[j] = Msg("scammer", tUpiCaps)
    /\ h[hd].session.extractedIntelligence.upiIds = << "refund@phonepe" >>

\* C16: of the strings the phone regexes match, one with exactly 10 digits
\* gives '+91' and the digits, one with 12 digits that start with 91 gives
\* '+' and the digits, one with any other count above 10 gives '+' and the
\* digits, one with fewer than 10 digits gives nothing; phoneNumbers holds
\* these strings and no others, each once.
C16_PhoneNormalisation ==
  probe.op = "phone_numbers"
  => LET digits == [ m \in Range(probe.matches) |->
                       CASE m \in {"+91 9876543210", "+91 9876543210 "} -> "919876543210"
                         [] m \in {"9876543210", "98765 43210"} -> "9876543210"
                         [] m = "09876543210 " -> "09876543210"
                         [] m = "449876543210" -> "449876543210"
                         [] m = "98765 4321" -> "987654321" ]
         expected == { IF Len(digits[m]) = 10 THEN "+91" \o digits[m]
                       ELSE "+" \o digits[m] :
                       m \in {x \in Range(probe.matches) : Len(digits[x]) >= 10} }
     IN  /\ Range(probe.result) = expected
         /\ \A i, j \in DOMAIN probe.result :
              i # j => probe.result[i] # probe.result[j]
         /\ "+91919876543210" \notin Range(probe.result)

\* C16, its case: a transcript that spells one number as '+91 9876543210',
\* '9876543210' and '98765 43210', and holds a number of 11 digits, one of 12
\* digits that do not start with 91 and one of 9 digits.
C16_SpellingsOfOneNumber ==
  /\ probe.op = "phone_numbers"
  /\ {"+91 9876543210", "9876543210", "98765 43210", "09876543210 ",
      "449876543210", "98765 4321"} \subseteq Range(probe.matches)
  /\ Range(probe.result) = {"+919876543210", "+09876543210", "+449876543210"}
  /\ Len(probe.result) = 3

\* C17: the attempt counter of each of the four fields of an agent is at
\* most 2; and a call of generate_response made when the counter of a field
\* was 2 does not raise it, does not choose the field's extraction strategy
\* and does not reply with one of the field's extraction questions.
C17_AttemptsAtMostTwo ==
  /\ \A s \in SessionIds, f \in AgentFields :
       active_agents[s].extraction_attempts[f] <= 2
  /\ probe.op = "generate_response"
     => \A f \in AgentFields :
          probe.before.extraction_attempts[f] = 2
          => LET data_type == CASE f = "upi" -> "upi_id"
                                [] f = "bank" -> "bank_account"
                                [] f = "phone" -> "phone_number"
                                [] f = "link" -> "phishing_link"
                 questions == { _generate_extraction_question(
                                  [persona |-> p], data_type, k) :
                                  p \in Personas,
                                  k \in 1..Len(ExtractionQuestions(data_type)) }
             IN  /\ active_agents["s1"].extraction_attempts[f] = 2
                 /\ probe.strategy # "extract_" \o f
                 /\ probe.reply \notin questions

\* C17, its case: the agent has asked for the UPI id twice, no id has been
\* extracted, the scammer writes of UPI again and the agent does not ask.
C17_ThirdMentionNotAsked ==
  /\ probe.op = "generate_response"
  /\ probe.before.extraction_attempts["upi"] = 2
  /\ ~probe.before.extracted_so_far["upi"]
  /\ probe.extracted.upiIds = <<>>
  /\ probe.scammer_msg = tPayUpi
  /\ probe.strategy = "show_cooperation"

\* C18: when the last scammer message carries the vocabulary of a field
\* whose attempt counter has reached 2 and of which nothing has been
\* extracted, the strategy of the turn is one of express_concern,
\* express_confusion, ask_clarification, show_cooperation.
C18_FallsBackToStalling ==
  probe.op = "generate_response"
  => LET none(f) == CASE f = "upi" -> probe.extracted.upiIds = <<>>
                      [] f = "bank" -> probe.extracted.bankAccounts = <<>>
                      [] f = "phone" -> probe.extracted.phoneNumbers = <<>>
                      [] f = "link" -> probe.extracted.phishingLinks = <<>>
     IN  (\E f \in AgentFields :
            /\ f \in Vocab(probe.scammer_msg)
            /\ probe.before.extraction_attempts[f] = 2
            /\ none(f))
         => probe.strategy \in {"express_concern", "express_confusion",
                                "ask_clarification", "show_cooperation"}

\* C19: the step of a turn in which the delivery of the callback fails
\* leaves the session, with callbackSent false, the reply and the store as
\* they were and raises nothing; the turn goes on to its last save and then
\* answers status success with the reply chosen before the callback.
C19_FailureNotSurfaced ==
  [][ \A hd \in Handlers :
        /\ h[hd].kind = "turn" /\ h[hd].pc = "callback" /\ h'[hd].outcome = "fail"
           => /\ h'[hd].session = h[hd].session
              /\ ~h'[hd].session.callbackSent
              /\ h'[hd].reply = h[hd].reply
              /\ ~h'[hd].raised
              /\ h'[hd].pc = "save_final"
              /\ db' = db
        /\ h[hd].kind = "turn" /\ h[hd].outcome = "fail" /\ h[hd].pc = "save_final"
           => /\ h'[hd].pc = "done"
              /\ h'[hd].status = "success"
              /\ h'[hd].reply = h[hd].reply
              /\ h'[hd].reply # ""
              /\ ~h'[hd].session.callbackSent ]_vars

\* C19, its case: a turn whose delivery failed has answered.
C19_FailedDeliveryAnswered ==
  \E hd \in Handlers :
    /\ h[hd].kind = "turn" /\ h[hd].pc = "done"
    /\ h[hd].called /\ h[hd].outcome = "fail"
    /\ h[hd].status = "success"
    /\ h[hd].reply = h[hd].session.messages[Len(h[hd].session.messages)].text
    /\ ~h[hd].session.callbackSent

\* C20: a turn that has answered status success is one whose last save of
\* the session returned True; a turn whose save failed answers status error
\* with a reply.
C20_SaveFailureReported ==
  \A hd \in Handlers :
    h[hd].kind = "turn" /\ h[hd].pc = "done" /\ ~h[hd].raised
    => IF save_session(db, h[hd].session).ok
       THEN h[hd].status = "success"
       ELSE h[hd].status = "error" /\ h[hd].reply # ""

\* C21: the transcript of a turn, made of the incoming message and of the
\* messages merged from conversationHistory, holds no (sender, text) pair
\* twice; stated for the scammer-authored messages, which only the request
\* brings in.
C21_HistoryMergedOnce ==
  \A hd \in Handlers :
    h[hd].kind = "turn" /\ ~h[hd].raised
    => LET messages == h[hd].session.messages
       IN  \A i, j \in DOMAIN messages :
             i # j /\ messages[i].sender = "scammer" => messages[i] # messages[j]

\* C22: the transcript after the merge starts with the transcript the
\* session held before, unchanged, and every message taken from
\* conversationHistory stands before the incoming message of the turn, which
\* is the last one.
C22_HistoryBeforeIncoming ==
  probe.op = "add_messages"
  => /\ Len(probe.loaded) <= Len(probe.result)
     /\ SubSeq(probe.result, 1, Len(probe.loaded)) = probe.loaded
     /\ probe.result[Len(probe.result)] = probe.request.message

\* C23: a request that is refused for its x-api-key, at any of the three
\* endpoints, is answered with an error status, and neither its arrival nor
\* its answer changes the store, an agent, or the callbacks made.
C23_RefusedWithoutEffect ==
  [][ LET refused == {"refused " \o endpoint : endpoint \in Endpoints}
      IN  \A hd \in Handlers :
            h[hd].kind \in refused \/ h'[hd].kind \in refused
            => /\ db' = db
               /\ active_agents' = active_agents
               /\ delivered' = delivered /\ failed' = failed
               /\ lastIntel' = lastIntel
               /\ h'[hd].kind \in refused
                  => /\ h'[hd].status \in {"401", "422"}
                     /\ h'[hd].pc = "done"
                     /\ ~h'[hd].called ]_vars

\* C23, its case: a request has been refused with 401 in a run in which the
\* session has an agent from a turn before.
C23_RefusedAfterEngagedTurn ==
  \E hd \in Handlers :
    /\ h[hd].kind = "refused force-callback" /\ h[hd].status = "401"
    /\ h[hd].reply = "Invalid API key"
    /\ active_agents[h[hd].sessionId].present
    /\ active_agents[h[hd].sessionId].turn_count = 1

\* C24: a step of a request of one session leaves the stored row, the agent
\* and the callback record of every other session as they were, and leaves
\* the handler of every other request, with its session object, its reply
\* and its status, as it was.
C24_SessionsIndependent ==
  [][ \A hd \in Handlers :
        h'[hd] # h[hd]
        => LET sid == IF h[hd].pc = "idle" THEN h'[hd].sessionId ELSE h[hd].sessionId
           IN  /\ \A other \in SessionIds \ {sid} :
                    /\ db'[other] = db[other]
                    /\ active_agents'[other] = active_agents[other]
                    /\ delivered'[other] = delivered[other]
                    /\ failed'[other] = failed[other]
                    /\ lastIntel'[other] = lastIntel[other]
               /\ \A b \in Handlers \ {hd} : h'[b] = h[b] ]_vars

\* C24, its case: turns of the two sessions are in flight together, one
\* about to invoke the callback, and each session has its own agent.
C24_TwoSessionsInFlight ==
  /\ h["h1"].kind = "turn" /\ h["h1"].sessionId = "s1" /\ h["h1"].pc = "callback"
  /\ h["h2"].kind = "turn" /\ h["h2"].sessionId = "s2" /\ InFlight("h2")
  /\ active_agents["s1"].present /\ active_agents["s2"].present

\* C25: when at least one category matched, the confidence is the smaller of
\* 0.99 and the sum of 0.15 per matched category up to 0.45, 0.1 for each
\* matched category with two matched rules or more and 0.1 more for each with
\* three or more, 0.15 for each of urgency, otp_pin_harvesting and phishing
\* that matched, 0.1 for upi_fraud, 0.1 for bank_fraud, and 0.15 for urgency
\* together with upi_fraud or bank_fraud; the sum is over sets of categories,
\* so no visiting order enters it.
C25_ConfidenceFormula ==
  (probe.op = "classify" /\ \E c \in CategorySet : probe.category_matches[c] # {})
  => LET cm == probe.category_matches
         matched == {c \in CategorySet : cm[c] # {}}
         perCategory == IF 15 * Cardinality(matched) <= 45
                        THEN 15 * Cardinality(matched) ELSE 45
         twoRules == 10 * Cardinality({c \in matched : Cardinality(cm[c]) >= 2})
         threeRules == 10 * Cardinality({c \in matched : Cardinality(cm[c]) >= 3})
         critical == 15 * Cardinality(matched \cap
                             {"urgency", "otp_pin_harvesting", "phishing"})
         upi == IF "upi_fraud" \in matched THEN 10 ELSE 0
         bank == IF "bank_fraud" \in matched THEN 10 ELSE 0
         together == IF "urgency" \in matched
                        /\ ("upi_fraud" \in matched \/ "bank_fraud" \in matched)
                     THEN 15 ELSE 0
         S == perCategory + twoRules + threeRules + critical + upi + bank + together
     IN  probe.result.confidenceScore = IF S <= 99 THEN S ELSE 99

\* C25, its case: urgency matched with one rule and upi_fraud with three; the
\* terms are 0.30 for two categories, 0.20 for the three rules, 0.15 for
\* urgency, 0.10 for upi_fraud and 0.15 for the two together: 0.90, below
\* the cap.
C25_UrgencyWithPayment ==
  /\ probe.op = "classify"
  /\ {c \in CategorySet : probe.category_matches[c] # {}} = {"urgency", "upi_fraud"}
  /\ Cardinality(probe.category_matches["urgency"]) = 1
  /\ Cardinality(probe.category_matches["upi_fraud"]) = 3
  /\ probe.result.confidenceScore = 90

\* C26: under every configured threshold and for every category_matches
\* dict, the one with no matched category included, scamDetected is true
\* exactly when the returned confidenceScore is at or above the threshold.
C26_DetectedIffAtThreshold ==
  probe.op = "threshold"
  => (probe.result.scamDetected <=> probe.result.confidenceScore >= probe.threshold)

\* C27: a URL found in the scammer text is in phishingLinks exactly when it
\* starts with http://, https:// or www. and its host, without a leading
\* "www.", is neither an allow-listed domain nor a subdomain of one.
C27_KeptIffNotAllowListed ==
  probe.op = "phishing_links"
  => LET found == UNION { Range(RawMatches(probe.messages[i].text, "phishing_link")[k]) :
                            i \in 1..Len(probe.messages), k \in 1..2 }
         host == [ url \in found |->
                     CASE url = "http://sbi-kyc.xyz/login" -> "sbi-kyc.xyz"
                       [] url = "www.sbi.co.in/help" -> "sbi.co.in"
                       [] url = "https://sbi.co.in:443/login" -> "sbi.co.in"
                       [] url = "HTTP://pay-kyc.xyz/a" -> "pay-kyc.xyz"
                       [] url = "https://news.example.org/today" -> "news.example.org" ]
     IN  \A url \in found :
           url \in Range(probe.result)
           <=> (url # "HTTP://pay-kyc.xyz/a" /\ host[url] # "sbi.co.in")

\* C28: an e-mail address on a free-mail domain in the scammer text gives no
\* entry of upiIds, neither the address nor the address cut at the first
\* "." after its "@".
C28_FreeMailNotUpi ==
  probe.op = "upi_ids"
  => \A i \in 1..Len(probe.result) :
       probe.result[i] \notin {"helper@gmail.com", "helper@gmail"}

\* C29: the strategy of a turn is the outcome of the first rule, in the
\* order UPI, bank account, phone and link extraction (the message has the
\* field's vocabulary, nothing of the field is extracted, fewer than 2
\* attempts), concern on urgency vocabulary, confusion on request
\* vocabulary, clarification while the turn counter is at most 2,
\* cooperation, whose guard holds; rules before it are skipped.
C29_FirstSatisfiedRule ==
  probe.op = "generate_response"
  => LET v == Vocab(probe.scammer_msg)
         attempts == probe.before.extraction_attempts
         counter == probe.before.turn_count + 1
         rules == << << "upi" \in v /\ probe.extracted.upiIds = <<>>
                          /\ attempts["upi"] < 2, "extract_upi" >>,
                     << "bank" \in v /\ probe.extracted.bankAccounts = <<>>
                          /\ attempts["bank"] < 2, "extract_bank" >>,
                     << "phone" \in v /\ probe.extracted.phoneNumbers = <<>>
                          /\ attempts["phone"] < 2, "extract_phone" >>,
                     << "link" \in v /\ probe.extracted.phishingLinks = <<>>
                          /\ attempts["link"] < 2, "extract_link" >>,
                     << "urgent" \in v, "express_concern" >>,
                     << "ask" \in v, "express_confusion" >>,
                     << counter <= 2, "ask_clarification" >>,
                     << TRUE, "show_cooperation" >> >>
         satisfied == {i \in 1..8 : rules[i][1]}
         first == CHOOSE i \in satisfied : \A j \in satisfied : i <= j
     IN  probe.strategy = rules[first][2]

\* C29, its case: the message has the vocabulary of UPI, phone, urgency and
\* request; a UPI id is extracted, so the first rule is skipped, the second
\* has no vocabulary, and the third, phone extraction, is the outcome.
C29_SkippedToPhone ==
  /\ probe.op = "generate_response"
  /\ probe.scammer_msg = tUpi
  /\ probe.extracted.upiIds # <<>>
  /\ probe.before.extraction_attempts["upi"] < 2
  /\ probe.strategy = "extract_phone"

\* C30: the agent of a session is created by the first turn whose detection
\* crosses the threshold; once it exists it stays, with its persona and scam
\* type; every engaged turn of the session, however turns interleave, adds
\* one to its turn counter and at most one to each attempt counter, and no
\* other step changes it.
C30_OneEnginePerSession ==
  [][ \A s \in SessionIds :
        LET engaging ==
              { hd \in Handlers :
                  /\ h[hd].pc = "idle" /\ h'[hd].kind = "turn"
                  /\ h'[hd].sessionId = s /\ ~h'[hd].raised
                  /\ h'[hd].session.detectionResult.scamDetected
                  /\ h'[hd].session.detectionResult.confidenceScore
                       >= SCAM_DETECTION_THRESHOLD }
        IN  /\ active_agents[s].present
               => /\ active_agents'[s].present
                  /\ active_agents'[s].persona = active_agents[s].persona
                  /\ active_agents'[s].scam_type = active_agents[s].scam_type
            /\ IF engaging # {}
               THEN /\ active_agents'[s].present
                    /\ active_agents'[s].turn_count = active_agents[s].turn_count + 1
                    /\ \A f \in AgentFields :
                         active_agents'[s].extraction_attempts[f]
                           \in { active_agents[s].extraction_attempts[f],
                                 active_agents[s].extraction_attempts[f] + 1 }
               ELSE active_agents'[s] = active_agents[s] ]_vars

\* C30, its case: two turns of the session are in flight together, both
\* engaged; the agent was created by the first, for OTP harvesting, and the
\* second, detected as UPI fraud, used the same agent: its turn counter is 2.
C30_SecondTurnReusedAgent ==
  /\ InFlight("h1") /\ InFlight("h2")
  /\ h["h1"].sessionId = "s1" /\ h["h2"].sessionId = "s1"
  /\ h["h1"].session.detectionResult.scamType = "otp_harvesting"
  /\ h["h2"].session.detectionResult.scamType = "upi_fraud"
  /\ active_agents["s1"].scam_type = "otp_harvesting"
  /\ active_agents["s1"].turn_count = 2

\* C31: a turn whose detection is negative or below the threshold answers
\* with the fixed neutral reply, leaves active_agents as it was (no agent
\* created, a bound agent's counters and flags unchanged) and puts no agent
\* message in the session's messages.
C31_NotEngagedLeavesAgent ==
  [][ \A hd \in Handlers :
        ( /\ h[hd].pc = "idle" /\ h'[hd].kind = "turn" /\ ~h'[hd].raised
          /\ ~( /\ h'[hd].session.detectionResult.scamDetected
                /\ h'[hd].session.detectionResult.confidenceScore
                     >= SCAM_DETECTION_THRESHOLD ) )
        => /\ h'[hd].reply = NeutralReply
           /\ active_agents' = active_agents
           /\ \A i \in 1..Len(h'[hd].session.messages) :
                h'[hd].session.messages[i].sender # "agent" ]_vars

\* C31, its case: the session has an agent that answered one turn, and a
\* later turn with no indicator is answered with the neutral reply while the
\* agent's turn counter is still 1.
C31_NeutralTurnWithBoundAgent ==
  /\ h["h1"].kind = "turn" /\ h["h1"].pc = "save_final" /\ ~h["h1"].raised
  /\ ~h["h1"].session.detectionResult.scamDetected
  /\ h["h1"].reply = NeutralReply
  /\ Len(h["h1"].session.messages) >= 1
  /\ active_agents["s1"].present /\ active_agents["s1"].turn_count = 1

\* C32: whatever maximum is configured, generate_response is not called on
\* an agent whose turn count has reached it, that is, whose should_continue
\* is false.
C32_NoResponseAfterCap ==
  probe.op = "generate_response"
  => \A max_turns \in TurnCaps : should_continue(probe.before, max_turns)

\* C33: a turn that goes on to invoke the callback has, from the step that
\* decided it, agentNotes that are not empty and are generate_agent_notes of
\* the session's agent on the intelligence the session holds in that turn;
\* the notes and the intelligence stay as they are until the callback is
\* invoked, so the payload carries them.
C33_NotesOfThisTurn ==
  [][ \A hd \in Handlers :
        /\ (h[hd].pc = "idle" /\ h'[hd].kind = "turn" /\ h'[hd].pc = "save_before")
           => /\ h'[hd].session.agentNotes # ""
              /\ h'[hd].session.agentNotes =
                   generate_agent_notes(active_agents'[h'[hd].sessionId],
                                        h'[hd].session.extractedIntelligence)
        /\ (h'[hd].pc = "save_before" /\ h[hd].pc # "idle") => h'[hd] = h[hd]
        /\ (h'[hd].kind = "turn" /\ h'[hd].pc = "callback")
           => /\ h[hd].kind = "turn" /\ h[hd].pc \in {"save_before", "callback"}
              /\ h'[hd].session.agentNotes = h[hd].session.agentNotes
              /\ h'[hd].session.extractedIntelligence
                   = h[hd].session.extractedIntelligence ]_vars

\* C33, its case: a turn is about to invoke the callback with the notes of
\* an agent that has answered two turns, on one extracted UPI id.
C33_CallbackCarriesNotes ==
  \E hd \in Handlers :
    /\ h[hd].kind = "turn" /\ h[hd].pc = "callback"
    /\ h[hd].session.extractedIntelligence.upiIds = << "refund@phonepe" >>
    /\ active_agents["s1"].turn_count = 2
    /\ h[hd].session.agentNotes
         \in { generate_agent_notes([active_agents["s1"] EXCEPT !.turn_count = n],
                                    h[hd].session.extractedIntelligence) : n \in 1..2 }

\* C34: in an engaged turn whose incoming message is scammer-authored, the
\* message generate_response finds as the last scammer message, the one its
\* strategy is determined on, is the incoming message of the turn, whatever
\* the conversation history of the request holds.
C34_StrategyOnIncomingMessage ==
  (probe.op = "engaged_turn" /\ probe.request.message.sender = "scammer")
  => probe.last_scammer_msg = probe.request.message.text

\* C35: a turn, whether its request carries a metadata object or null, is
\* carried through the pipeline: no step of it raises, its session holds a
\* detection result, and it is not answered with status error and the
\* apology of the except clause.
C35_MetadataTurnProcessed ==
  \A hd \in Handlers :
    (h[hd].kind = "turn" /\ h[hd].pc # "idle")
    => /\ ~h[hd].raised
       /\ h[hd].session.hasDetection
       /\ h[hd].status # "error"
       /\ h[hd].reply # ErrorReply

\* C36: the intelligence of every session object a turn works on, of every
\* stored row and of every finished turn holds at most 5 bank accounts, 5
\* IFSC codes, 5 UPI ids, 5 phone numbers, 10 phishing links and 15
\* suspicious keywords.
C36_FieldCaps ==
  LET capped(intel) ==
        /\ Len(intel.bankAccounts) <= 5 /\ Len(intel.ifscCodes) <= 5
        /\ Len(intel.upiIds) <= 5 /\ Len(intel.phoneNumbers) <= 5
        /\ Len(intel.phishingLinks) <= 10 /\ Len(intel.suspiciousKeywords) <= 15
  IN  /\ \A hd \in Handlers : capped(h[hd].session.extractedIntelligence)
      /\ \A s \in SessionIds : capped(db[s].row.extractedIntelligence)
                               /\ capped(lastIntel[s])

\* C36, its case: the scammer has stated seven UPI ids in the transcript of
\* a turn, and the session of the turn holds the first five.
C36_SixthIdNotHeld ==
  /\ h["h1"].kind = "turn" /\ h["h1"].pc = "save_final"
  /\ \E i, j \in 1..Len(h["h1"].session.messages) :
       /\ h["h1"].session.messages[i].text = tUpi
       /\ h["h1"].session.messages[j].text = tSixUpi
  /\ Len(h["h1"].session.extractedIntelligence.upiIds) = 5
  /\ \A i \in 1..5 : h["h1"].session.extractedIntelligence.upiIds[i] # "fay@okbank"

C38_NoLostUpdate ==
  \A s \in SessionIds :
    ( \A hd \in Handlers :
        /\ h[hd].kind = "turn" /\ h[hd].sessionId = s
        /\ h[hd].pc = "done" /\ h[hd].status = "success" )
    => /\ db[s].present
       /\ \A hd \in Handlers :
            /\ h[hd].session.messages[1] \in Range(db[s].row.messages)
            /\ \A f \in IntelFields :
                 Range(h[hd].session.extractedIntelligence[f])
                   \subseteq Range(db[s].row.extractedIntelligence[f])

=============================================================================
